---- MODULE Spec2Model ----
(***************************************************************************)
(* maush relay bot (src/maush/maush.py): the exec relay handler, the room  *)
(* metadata caches, the pending-deletion registry and the event handlers,  *)
(* as asyncio coroutines that interleave only where the code awaits.       *)
(***************************************************************************)
EXTENDS Integers, Sequences, FiniteSets, TLC

VARIABLES
    name_cache,     \* MaushBot.name_cache: dict room -> str
    topic_cache,    \* MaushBot.topic_cache
    avatar_cache,   \* MaushBot.avatar_cache
    allow_redact,   \* MaushBot.allow_redact: set of event ids
    cache_ver,      \* ghost: version of the room state each cache entry holds
    srv,            \* homeserver: room state, [room -> [field -> [val, ver]]]
    sync,           \* homeserver -> bot: state events not yet dispatched (FIFO)
    execs,          \* one record per handler invocation of a message event
    msgs,           \* homeserver: messages the bot sent, index = event id
    reacted,        \* homeserver: ids the bot attached its "delete" reaction to
    redacts,        \* client.redact calls in call order, each [id, by] and
                    \* (ghost) the key of the reaction that asked for it
    externals,      \* number of room state changes made by other users
    conv            \* one call of ansi_to_html: its locals and its result

vars == <<name_cache, topic_cache, avatar_cache, allow_redact, cache_ver, srv,
          sync, execs, msgs, reacted, redacts, externals, conv>>

\* the state of the bot and of the homeserver
botvars == <<name_cache, topic_cache, avatar_cache, allow_redact, cache_ver, srv,
             sync, execs, msgs, reacted, redacts, externals>>

----------------------------------------------------------------------------
(* Bounds of the model *)

MaxExecs == 2
MaxConcurrent == 2
MaxExternal == 1
MaxRedactCalls == 2
MaxGateExecs == 1
MaxRenderExecs == 1
MaxParseExecs == 1
MaxTail == 4
MaxInstr == 3
MaxSudoExecs == 1
MaxClearExecs == 2

----------------------------------------------------------------------------
(* Text values.  A str is [pre, tag, len, ws]: len characters of content   *)
(* (tag names the content, pre is "mxc://" when the content starts with    *)
(* it) surrounded by ws characters of whitespace.                          *)

Txt(pre, tag, len, ws) == [pre |-> pre, tag |-> tag, len |-> len, ws |-> ws]
Empty == Txt("", "", 0, 0)

\* len(s)
PyLen(s) == s.len + s.ws

\* bool(s)
Truthy(s) == PyLen(s) > 0

\* s.strip()
Strip(s) == IF s.len = 0 THEN Empty ELSE [s EXCEPT !.ws = 0]

\* s.startswith("mxc://")
StartsWithMxc(s) == s.ws = 0 /\ s.pre = "mxc://"

NameA == Txt("", "a", 1, 0)
NameB == Txt("", "b", 3, 0)
NameBPadded == Txt("", "b", 3, 2)
NameLong == Txt("", "long", 101, 0)
TopicA == Txt("", "t", 5, 0)
AvatarA == Txt("mxc://", "av1", 20, 0)
AvatarBad == Txt("", "http", 20, 0)
\* values at the caps of the trust gate: a name of 100 characters with
\* whitespace around it, a topic of 1000 and one of 1001 characters, an mxc
\* url of 100 and one of 101 characters
Name100Padded == Txt("", "n100", 100, 2)
Topic1000 == Txt("", "t1000", 1000, 0)
Topic1001 == Txt("", "t1001", 1001, 0)
Avatar100 == Txt("mxc://", "av100", 100, 0)
Avatar101 == Txt("mxc://", "av101", 101, 0)

Fields == {"name", "topic", "avatar"}

\* what another user may set a field to
ExternalVals(f) ==
    CASE f = "name" -> {Empty, NameB}
      [] f = "topic" -> {TopicA}
      [] f = "avatar" -> {Empty}

\* what the backend may return under a device key: the key missing, the old
\* value echoed, or a value of its own
DeviceVals(f, old) ==
    CASE f = "name" -> {Empty, old, NameBPadded, NameLong}
      [] f = "topic" -> {old, TopicA}
      [] f = "avatar" -> {old, AvatarBad}

DeviceValsGate(f, old) ==
    CASE f = "name" -> {old, Name100Padded, NameLong}
      [] f = "topic" -> {old, TopicA, Topic1000, Topic1001}
      [] f = "avatar" -> {old, Empty, Avatar100, Avatar101, AvatarBad}

\* values of the Clear environment; there the map may also lack any key
DeviceValsClear(f, old) ==
    CASE f = "name" -> {old, Empty}
      [] f = "topic" -> {old, TopicA}
      [] f = "avatar" -> {old}

DeviceValsName(f, old) ==
    CASE f = "name" -> {old, NameBPadded}
      [] f = "topic" -> {old}
      [] f = "avatar" -> {old}

----------------------------------------------------------------------------
(* Output text.  The stdout and stderr of a run are sequences of runs, a   *)
(* run being a block of characters repeated n times (n > 0, the block not  *)
(* empty).  Characters: "a" (one byte in UTF-8), "euro" (three bytes),     *)
(* "nl" (newline), "sp" (space), and "[", "hellip" (three bytes), "]" of   *)
(* the ellipsis marker.                                                    *)

LINE_LIMIT == 256
BYTE_LIMIT == 8192

Run(blk, n) == [blk |-> blk, n |-> n]
ELLIPSIS == <<Run(<<"[", "hellip", "]">>, 1)>>
Whitespace == {"nl", "sp"}

\* len(c.encode("utf-8"))
CharBytes(c) == IF c \in {"euro", "hellip"} THEN 3 ELSE 1

BlkCount(blk, c) == Cardinality({k \in 1..Len(blk) : blk[k] = c})

RECURSIVE BlkBytes(_)
BlkBytes(blk) ==
    IF blk = << >> THEN 0 ELSE CharBytes(Head(blk)) + BlkBytes(Tail(blk))

\* the number of whitespace characters a block starts with, ends with
BlkLead(blk) ==
    CHOOSE k \in 0..Len(blk) :
        /\ \A j \in 1..k : blk[j] \in Whitespace
        /\ k = Len(blk) \/ blk[k + 1] \notin Whitespace

BlkTrail(blk) ==
    CHOOSE k \in 0..Len(blk) :
        /\ \A j \in (Len(blk) - k + 1)..Len(blk) : blk[j] \in Whitespace
        /\ k = Len(blk) \/ blk[Len(blk) - k] \notin Whitespace

\* the index of the j-th newline of a block
BlkNlPos(blk, j) ==
    CHOOSE p \in 1..Len(blk) :
        blk[p] = "nl" /\ BlkCount(SubSeq(blk, 1, p), "nl") = j

\* len(s)
RECURSIVE StrLen(_)
StrLen(t) ==
    IF t = << >> THEN 0 ELSE Head(t).n * Len(Head(t).blk) + StrLen(Tail(t))

\* len(s.encode("utf-8"))
RECURSIVE StrBytes(_)
StrBytes(t) ==
    IF t = << >> THEN 0 ELSE Head(t).n * BlkBytes(Head(t).blk) + StrBytes(Tail(t))

\* s.count(c)
RECURSIVE StrCount(_, _)
StrCount(t, c) ==
    IF t = << >> THEN 0
    ELSE Head(t).n * BlkCount(Head(t).blk, c) + StrCount(Tail(t), c)

\* s[:k]
RECURSIVE StrPrefix(_, _)
StrPrefix(t, k) ==
    IF k <= 0 \/ t = << >> THEN << >>
    ELSE LET r == Head(t)
             L == Len(r.blk)
             q == k \div L
             m == k % L
         IN  IF r.n * L <= k
             THEN <<r>> \o StrPrefix(Tail(t), k - r.n * L)
             ELSE (IF q > 0 THEN <<Run(r.blk, q)>> ELSE << >>)
                  \o (IF m > 0 THEN <<Run(SubSeq(r.blk, 1, m), 1)>> ELSE << >>)

\* s[k:]
RECURSIVE StrDrop(_, _)
StrDrop(t, k) ==
    IF k <= 0 \/ t = << >> THEN t
    ELSE LET r == Head(t)
             L == Len(r.blk)
             q == k \div L
             m == k % L
             whole == r.n - q - (IF m > 0 THEN 1 ELSE 0)
         IN  IF r.n * L <= k
             THEN StrDrop(Tail(t), k - r.n * L)
             ELSE (IF m > 0 THEN <<Run(SubSeq(r.blk, m + 1, L), 1)>> ELSE << >>)
                  \o (IF whole > 0 THEN <<Run(r.blk, whole)>> ELSE << >>)
                  \o Tail(t)

\* the number of whitespace characters the text starts with, ends with
RECURSIVE StrLead(_)
StrLead(t) ==
    IF t = << >> THEN 0
    ELSE LET r == Head(t)
         IN  IF BlkLead(r.blk) = Len(r.blk)
             THEN r.n * Len(r.blk) + StrLead(Tail(t))
             ELSE BlkLead(r.blk)

RECURSIVE StrTrail(_)
StrTrail(t) ==
    IF t = << >> THEN 0
    ELSE LET r == t[Len(t)]
         IN  IF BlkTrail(r.blk) = Len(r.blk)
             THEN r.n * Len(r.blk) + StrTrail(SubSeq(t, 1, Len(t) - 1))
             ELSE BlkTrail(r.blk)

\* s.strip()
StrStrip(t) ==
    IF StrLead(t) = StrLen(t) THEN << >>
    ELSE StrDrop(StrPrefix(t, StrLen(t) - StrTrail(t)), StrLead(t))

\* the index of the m-th newline of a text that has one
RECURSIVE StrNlPos(_, _)
StrNlPos(t, m) ==
    LET r == Head(t)
        L == Len(r.blk)
        c == BlkCount(r.blk, "nl")
    IN  IF c * r.n < m
        THEN r.n * L + StrNlPos(Tail(t), m - c * r.n)
        ELSE ((m - 1) \div c) * L + BlkNlPos(r.blk, ((m - 1) % c) + 1)

\* "\n".join(s.split("\n")[:n])
StrFirstLines(t, n) ==
    IF StrCount(t, "nl") < n THEN t ELSE StrPrefix(t, StrNlPos(t, n) - 1)

\* _exec lines 202-203 and 209-210
LineCut(t) ==
    IF StrCount(t, "nl") > LINE_LIMIT
    THEN StrFirstLines(t, LINE_LIMIT) \o <<Run(<<"nl">>, 1)>> \o ELLIPSIS
    ELSE t

\* _exec lines 204-205 and 211-212
ByteCutNoEllipsis(t) ==
    IF StrLen(t) > BYTE_LIMIT
    THEN StrPrefix(t, BYTE_LIMIT - StrLen(ELLIPSIS))
    ELSE t
ByteCut(t) ==
    IF StrLen(t) > BYTE_LIMIT
    THEN StrPrefix(t, BYTE_LIMIT - StrLen(ELLIPSIS)) \o ELLIPSIS
    ELSE t

\* _exec lines 201-205 and 208-212: the text handed to ansi_to_html
Truncate(t) == ByteCut(LineCut(StrStrip(t)))

\* _exec lines 200 and 207: an empty stream is not rendered
Rendered(data) ==
    [stdout |-> IF data.stdout # << >> THEN Truncate(data.stdout) ELSE << >>,
     stderr |-> IF data.stderr # << >> THEN Truncate(data.stderr) ELSE << >>]

\* n lines of w characters each
LinesOf(n, w) ==
    (IF n > 1
     THEN <<Run([k \in 1..(w + 1) |-> IF k <= w THEN "a" ELSE "nl"], n - 1)>>
     ELSE << >>)
    \o <<Run(<<"a">>, w)>>

ShortOut == <<Run(<<"a">>, 5)>>

\* data["stdout"] of the runs considered: nothing; a few characters; text
\* with whitespace around it; whitespace only; 256, 257, 258 and 300
\* one-character lines; 256 lines and 257 lines ending in newlines; one
\* line of 8192, 8193 and 9000 characters; 9000 three-byte characters; 300
\* lines of 40 characters; a newline right where the byte cut falls; lines
\* that begin and end with spaces; blank lines followed by a long line
Stdouts ==
    {<< >>, ShortOut,
     <<Run(<<"sp">>, 2), Run(<<"a">>, 3), Run(<<"nl">>, 1)>>,
     <<Run(<<"sp">>, 3)>>,
     LinesOf(256, 1), LinesOf(257, 1), LinesOf(258, 1), LinesOf(300, 1),
     LinesOf(256, 1) \o <<Run(<<"nl">>, 1)>>,
     LinesOf(257, 1) \o <<Run(<<"nl">>, 2)>>,
     <<Run(<<"a">>, 8192)>>, <<Run(<<"a">>, 8193)>>, <<Run(<<"a">>, 9000)>>,
     <<Run(<<"euro">>, 9000)>>,
     LinesOf(300, 40),
     <<Run(<<"a">>, 8188), Run(<<"nl">>, 1), Run(<<"a">>, 100)>>,
     <<Run(<<"nl", "sp", "a", "sp", "nl">>, 3000)>>,
     <<Run(<<"nl">>, 1), Run(<<"a", "nl", "nl">>, 200), Run(<<"a", "sp">>, 5000)>>}

Stderrs == {<< >>, ShortOut, <<Run(<<"a">>, 9000)>>}

----------------------------------------------------------------------------
(* The ANSI to HTML converter: ansitohtml.py.  A text is the sequence of   *)
(* instructions Ansi(text).instructions() decodes it into: literal runs,   *)
(* SetColor, SetAttribute, instructions of other kinds, and a malformed    *)
(* escape sequence, at which the decoding raises.                          *)

NoColor == "none"
Colors == {"red", "blue"}
Roles == {"FOREGROUND", "BACKGROUND"}
Attributes ==
    {"NORMAL", "BOLD", "DIM", "NEITHER_BOLD_NOR_DIM", "ITALIC", "NOT_ITALIC",
     "UNDERLINE", "NOT_UNDERLINE", "STRIKETHROUGH", "NOT_STRIKETHROUGH", "BLINK",
     "NOT_BLINK", "REVERSE", "NOT_REVERSE", "HIDDEN", "NOT_HIDDEN"}
\* the characters of a literal run: a letter and two that html.escape replaces
LitChars == {"x", "<", "&"}

Str(c) == [type |-> "str", a |-> c, b |-> ""]
SetColor(role, color) == [type |-> "color", a |-> role, b |-> color]
SetAttribute(attr) == [type |-> "attr", a |-> attr, b |-> ""]
OtherInstruction == [type |-> "other", a |-> "", b |-> ""]
Malformed == [type |-> "bad", a |-> "", b |-> ""]
NoInstruction == [type |-> "", a |-> "", b |-> ""]

\* the pieces of the output: tags, escaped characters and, in the escaped
\* original text, the escape sequences as they were
Tag(kind, el, attr, color, bg) ==
    [kind |-> kind, el |-> el, attr |-> attr, color |-> color, bg |-> bg]
Open(el) == Tag("open", el, "", NoColor, NoColor)
Close(el) == Tag("close", el, "", NoColor, NoColor)

\* html.escape of one character
EscapeChar(c) ==
    CASE c = "<" -> "&lt;"
      [] c = "&" -> "&amp;"
      [] OTHER -> c

\* html.escape(text) of a decoded text
HtmlEscape(text) ==
    [k \in 1..Len(text) |->
        IF text[k].type = "str"
        THEN Tag("text", EscapeChar(text[k].a), "", NoColor, NoColor)
        ELSE Tag("raw", text[k].type, text[k].a, text[k].b, NoColor)]

\* ANSIHTML()
ANSIHTML ==
    [fg |-> NoColor, bg |-> NoColor, bold |-> FALSE, dim |-> FALSE,
     italic |-> FALSE, underline |-> FALSE, strikethrough |-> FALSE,
     blink |-> FALSE, reverse |-> FALSE, hidden |-> FALSE]

Flags == {"bold", "dim", "italic", "underline", "strikethrough", "blink",
          "reverse", "hidden"}

\* ANSIHTML.is_default
is_default(t) ==
    ~(\/ t.fg # NoColor \/ t.bg # NoColor \/ t.bold \/ t.dim \/ t.italic
      \/ t.underline \/ t.strikethrough \/ t.blink \/ t.reverse \/ t.hidden)

\* ANSIHTML.update_attribute
update_attribute_bold_keeps_dim(t, attr) ==
    CASE attr = "BOLD" -> [t EXCEPT !.bold = TRUE]
      [] attr = "DIM" -> [t EXCEPT !.dim = TRUE, !.bold = FALSE]
      [] OTHER -> t
update_attribute_normal_keeps_italic(t, attr) ==
    CASE attr = "NORMAL" ->
           [t EXCEPT !.fg = NoColor, !.bg = NoColor, !.bold = FALSE, !.dim = FALSE,
                     !.underline = FALSE, !.blink = FALSE, !.hidden = FALSE]
      [] attr = "ITALIC" -> [t EXCEPT !.italic = TRUE]
      [] attr = "STRIKETHROUGH" -> [t EXCEPT !.strikethrough = TRUE]
      [] OTHER -> t
update_attribute_normal_clears_all(t, attr) ==
    CASE attr = "NORMAL" -> ANSIHTML
      [] attr = "STRIKETHROUGH" -> [t EXCEPT !.strikethrough = TRUE]
      [] attr = "REVERSE" -> [t EXCEPT !.reverse = TRUE]
      [] OTHER -> t
update_attribute(t, attr) ==
    CASE attr = "NORMAL" ->
           [t EXCEPT !.fg = NoColor, !.bg = NoColor, !.bold = FALSE, !.dim = FALSE,
                     !.italic = FALSE, !.underline = FALSE, !.blink = FALSE,
                     !.hidden = FALSE]
      [] attr = "BOLD" -> [t EXCEPT !.bold = TRUE, !.dim = FALSE]
      [] attr = "DIM" -> [t EXCEPT !.dim = TRUE, !.bold = FALSE]
      [] attr = "NEITHER_BOLD_NOR_DIM" -> [t EXCEPT !.bold = FALSE, !.dim = FALSE]
      [] attr = "ITALIC" -> [t EXCEPT !.italic = TRUE]
      [] attr = "NOT_ITALIC" -> [t EXCEPT !.italic = FALSE]
      [] attr = "UNDERLINE" -> [t EXCEPT !.underline = TRUE]
      [] attr = "NOT_UNDERLINE" -> [t EXCEPT !.underline = FALSE]
      [] attr = "STRIKETHROUGH" -> [t EXCEPT !.strikethrough = TRUE]
      [] attr = "NOT_STRIKETHROUGH" -> [t EXCEPT !.strikethrough = FALSE]
      [] attr = "BLINK" -> [t EXCEPT !.blink = TRUE]
      [] attr = "NOT_BLINK" -> [t EXCEPT !.blink = FALSE]
      [] attr = "REVERSE" -> [t EXCEPT !.reverse = TRUE]
      [] attr = "NOT_REVERSE" -> [t EXCEPT !.reverse = FALSE]
      [] attr = "HIDDEN" -> [t EXCEPT !.hidden = TRUE]
      [] attr = "NOT_HIDDEN" -> [t EXCEPT !.hidden = FALSE]
      [] OTHER -> t

\* the colours of the font tag: open_tags lines 91-98
Black == "#000000"
White == "#ffffff"
FontColors(t) ==
    IF t.reverse
    THEN [color |-> IF t.bg # NoColor THEN t.bg ELSE White,
          bg |-> IF t.fg # NoColor THEN t.fg ELSE Black]
    ELSE [color |-> t.fg, bg |-> t.bg]

\* ANSIHTML.open_tags
open_tags_underline_first(t) ==
    (IF t.underline THEN <<Open("u")>> ELSE << >>)
    \o (IF t.hidden THEN <<Tag("open", "span", "data-mx-spoiler", NoColor, NoColor)>>
        ELSE << >>)
    \o (IF t.fg # NoColor \/ t.bg # NoColor
        THEN <<Tag("open", "font", "", FontColors(t).color, FontColors(t).bg)>>
        ELSE << >>)
    \o (IF t.bold THEN <<Open("strong")>> ELSE << >>)
    \o (IF t.italic THEN <<Open("em")>> ELSE << >>)
    \o (IF t.strikethrough THEN <<Open("del")>> ELSE << >>)
open_tags(t) ==
    (IF t.hidden THEN <<Tag("open", "span", "data-mx-spoiler", NoColor, NoColor)>>
     ELSE << >>)
    \o (IF t.fg # NoColor \/ t.bg # NoColor
        THEN <<Tag("open", "font", "", FontColors(t).color, FontColors(t).bg)>>
        ELSE << >>)
    \o (IF t.bold THEN <<Open("strong")>> ELSE << >>)
    \o (IF t.italic THEN <<Open("em")>> ELSE << >>)
    \o (IF t.strikethrough THEN <<Open("del")>> ELSE << >>)
    \o (IF t.underline THEN <<Open("u")>> ELSE << >>)

\* ANSIHTML.close_tags
close_tags(t) ==
    (IF t.underline THEN <<Close("u")>> ELSE << >>)
    \o (IF t.strikethrough THEN <<Close("del")>> ELSE << >>)
    \o (IF t.italic THEN <<Close("em")>> ELSE << >>)
    \o (IF t.bold THEN <<Close("strong")>> ELSE << >>)
    \o (IF t.fg # NoColor \/ t.bg # NoColor THEN <<Close("font")>> ELSE << >>)
    \o (IF t.hidden THEN <<Tag("close", "span", "data-mx-spoiler", NoColor, NoColor)>>
        ELSE << >>)

\* _ansi_to_html lines 137-142: what a literal run appends to output
RunOf(t, c) ==
    (IF ~is_default(t) THEN open_tags(t) ELSE << >>)
    \o <<Tag("text", EscapeChar(c), "", NoColor, NoColor)>>
    \o (IF ~is_default(t) THEN close_tags(t) ELSE << >>)

(* conv: pc is "idle" before the call, "loop" inside the for loop of       *)
(* _ansi_to_html and "returned" after ansi_to_html has returned; tags and  *)
(* output are the locals of _ansi_to_html; text is the part of the text    *)
(* decoded so far.  Ghosts: last (the instruction the loop has just        *)
(* handled), was (tags before that instruction) and run (what that         *)
(* instruction appended to output).                                        *)
IdleConv ==
    [pc |-> "idle", text |-> << >>, tags |-> ANSIHTML, output |-> << >>,
     last |-> NoInstruction, was |-> ANSIHTML, run |-> << >>, result |-> << >>]

(* The converter is checked in two ways.  With keep TRUE the texts have at *)
(* most MaxInstr instructions and the whole of text and output is kept, up *)
(* to the return.  With keep FALSE the text has any length and only the    *)
(* style state and the last run are kept.                                  *)
ConvStart(keep) ==
    /\ conv.pc \in {"idle", "returned"}
    /\ conv' = [IdleConv EXCEPT !.pc = "loop"]
    /\ UNCHANGED botvars

\* the loop body of _ansi_to_html for one instruction
Handle(keep, instruction, tags, run) ==
    /\ conv.pc = "loop"
    /\ keep => Len(conv.text) < MaxInstr
    /\ conv' = [conv EXCEPT !.text = IF keep THEN Append(@, instruction) ELSE @,
                            !.tags = tags,
                            !.output = IF keep THEN @ \o run ELSE @,
                            !.last = instruction, !.was = conv.tags,
                            !.run = run]
    /\ UNCHANGED botvars

ConvStr(keep) ==
    \E c \in LitChars : Handle(keep, Str(c), conv.tags, RunOf(conv.tags, c))

ConvColor(keep) ==
    \E role \in Roles, color \in Colors \cup {NoColor} :
        Handle(keep, SetColor(role, color),
               IF role = "FOREGROUND" THEN [conv.tags EXCEPT !.fg = color]
               ELSE [conv.tags EXCEPT !.bg = color],
               << >>)

ConvAttribute(keep) ==
    \E attr \in Attributes :
        Handle(keep, SetAttribute(attr), update_attribute(conv.tags, attr), << >>)

ConvOther(keep) == Handle(keep, OtherInstruction, conv.tags, << >>)

\* the decoding raises: ansi_to_html lines 156-157
FallbackKeepsOutput(text, output) == output \o HtmlEscape(text)
Fallback(text, output) == HtmlEscape(text)

ConvRaise ==
    /\ conv.pc = "loop"
    /\ Len(conv.text) < MaxInstr
    /\ conv' = [IdleConv EXCEPT !.pc = "returned",
                                !.text = Append(conv.text, Malformed),
                                !.last = Malformed,
                                !.output = conv.output,
                                !.result = Fallback(Append(conv.text, Malformed),
                                                    conv.output)]
    /\ UNCHANGED botvars

\* the text ends: _ansi_to_html line 150
ConvReturn ==
    /\ conv.pc = "loop"
    /\ conv' = [IdleConv EXCEPT !.pc = "returned", !.text = conv.text,
                                !.output = conv.output, !.result = conv.output]
    /\ UNCHANGED botvars

----------------------------------------------------------------------------
(* Message bodies and the parsing of raw-mode commands: arbitrary_cmd      *)
(* lines 323-331.  A body is a sequence of characters; "sp" is a space,    *)
(* "nl" a newline and "q" a double quote.                                  *)

BodyChars == {"!", "?", "a", "sp", "nl", "q"}
TailChars == {"a", "sp", "nl", "q"}

\* str.startswith
StartsWith(s, p) == Len(s) >= Len(p) /\ SubSeq(s, 1, Len(p)) = p

\* str.find, counted from 1: where sep first begins in s, 0 if nowhere
Find(s, sep) ==
    LET hits == {k \in 1..(Len(s) - Len(sep) + 1) :
                     SubSeq(s, k, k + Len(sep) - 1) = sep}
    IN  IF hits = {} THEN 0 ELSE CHOOSE k \in hits : \A j \in hits : k <= j

\* s.split(sep, 1)
SplitOnce(s, sep) ==
    LET k == Find(s, sep)
    IN  IF k = 0 THEN <<s>>
        ELSE <<SubSeq(s, 1, k - 1), SubSeq(s, k + Len(sep), Len(s))>>

\* s.split(sep)
RECURSIVE SplitAll(_, _)
SplitAll(s, sep) ==
    LET k == Find(s, sep)
    IN  IF k = 0 THEN <<s>>
        ELSE <<SubSeq(s, 1, k - 1)>> \o SplitAll(SubSeq(s, k + Len(sep), Len(s)), sep)

(* shlex.split(s) of the standard library, for texts of these characters:  *)
(* words are separated by runs of whitespace, a double quote opens and     *)
(* closes a stretch taken literally, a word that had a quote is kept even  *)
(* when empty, and a quotation left open raises ValueError (ok FALSE).     *)
(* state is "none" between words, "word" inside one, "quote" inside a      *)
(* quotation.                                                              *)
RECURSIVE ShlexFrom(_, _, _, _, _)
ShlexFrom(s, k, state, tok, words) ==
    IF k > Len(s)
    THEN CASE state = "quote" -> [ok |-> FALSE, words |-> << >>]
           [] state = "word" -> [ok |-> TRUE, words |-> Append(words, tok)]
           [] state = "none" -> [ok |-> TRUE, words |-> words]
    ELSE CASE state = "quote" ->
                IF s[k] = "q" THEN ShlexFrom(s, k + 1, "word", tok, words)
                ELSE ShlexFrom(s, k + 1, "quote", Append(tok, s[k]), words)
           [] state # "quote" /\ s[k] = "q" ->
                ShlexFrom(s, k + 1, "quote", tok, words)
           [] state = "word" /\ s[k] \in {"sp", "nl"} ->
                ShlexFrom(s, k + 1, "none", << >>, Append(words, tok))
           [] state = "none" /\ s[k] \in {"sp", "nl"} ->
                ShlexFrom(s, k + 1, "none", << >>, words)
           [] OTHER -> ShlexFrom(s, k + 1, "word", Append(tok, s[k]), words)

ShlexSplit(s) == ShlexFrom(s, 1, "none", << >>, << >>)

\* the further arguments of arbitrary_cmd lines 329-330
MoreArgsAlwaysSpaces(prefix, rest) ==
    [ok |-> TRUE, words |-> SplitAll(rest, <<"sp">>)]
MoreArgs(prefix, rest) ==
    IF prefix = <<"!", "?">>
    THEN ShlexSplit(rest)
    ELSE [ok |-> TRUE, words |-> SplitAll(rest, <<"sp">>)]

\* arbitrary_cmd lines 323-331: the kwargs of its _exec call; ok is FALSE
\* when shlex.split raises
ParseRaw(body) ==
    LET blocks == SplitOnce(body, <<"nl", "nl">>)
        stdin == IF Len(blocks) > 1 THEN blocks[2] ELSE << >>
        split == SplitOnce(blocks[1], <<"sp">>)
        prefix == SubSeq(split[1], 1, 2)
        cmd == SubSeq(split[1], 3, Len(split[1]))
        more == IF Len(split) > 1 THEN MoreArgs(prefix, split[2])
                ELSE [ok |-> TRUE, words |-> << >>]
    IN  [ok |-> more.ok, language |-> cmd, args |-> <<cmd>> \o more.words,
         raw |-> TRUE, script |-> stdin]

\* the bodies considered for arbitrary_cmd: a prefix followed by every text
\* of up to MaxTail characters, some longer ones, and two without a prefix
Tails == UNION {[1..n -> TailChars] : n \in 0..MaxTail}
Bodies ==
    {p \o t : p \in {<<"!", "!">>, <<"!", "?">>}, t \in Tails}
    \cup {<<"!", "!", "a", "sp", "a", "sp", "sp", "a", "nl", "a", "nl", "nl",
            "a", "sp", "a", "nl", "nl", "a">>,
          <<"!", "?", "a", "sp", "q", "a", "sp", "sp", "a", "q", "a", "nl", "a",
            "nl", "nl", "q", "a">>,
          <<"!", "a">>, <<"a", "!", "!">>}

\* the body the other environments give arbitrary_cmd, and the script
\* argument the command framework hands to a named command
BodyCmd == <<"!", "!", "a">>
Script == <<"a">>

----------------------------------------------------------------------------
(* Configuration and identities *)

Rooms == {"!ok", "!other"}
ConfigRooms == {"!ok"}
BotMxid == "@bot"
Users == {"@alice", "@mallory", "@b*d"}
\* "@root" is an administrator whose name is also on the untrusted list
ConfigAdmins == {"@alice", "@root"}
ConfigUntrusted == {"@mallory", "@root"}

AllowedChars ==
    {"a", "b", "c", "d", "e", "i", "l", "m", "o", "r", "t", "y",
     "A", "Z", "0", "9", ".", "_", "=", "+", "-"}

\* client.parse_user_id(sender)[0]
Localpart(u) ==
    CASE u = "@alice" -> <<"a", "l", "i", "c", "e">>
      [] u = "@mallory" -> <<"m", "a", "l", "l", "o", "r", "y">>
      [] u = "@b*d" -> <<"b", "*", "d">>
      [] u = "@bot" -> <<"b", "o", "t">>
      [] u = "@root" -> <<"r", "o", "o", "t">>

\* client.parse_user_id(sender)[1]
Server(u) == <<"h", "s">>

\* re.sub(r"//+", "/", path)
RECURSIVE Collapse(_)
Collapse(path) ==
    IF Len(path) < 2 THEN path
    ELSE IF path[1] = "/" /\ path[2] = "/" THEN Collapse(Tail(path))
    ELSE <<path[1]>> \o Collapse(Tail(path))

\* the home field of req_data
Home(u) == Collapse(<<"/">> \o Server(u) \o <<"/">> \o Localpart(u))

\* allowed_localpart_regex.match(localpart)
LocalpartAllowed(lp) ==
    /\ Len(lp) > 0
    /\ \A i \in 1..Len(lp) : lp[i] \in AllowedChars

Entries == {"raw", "sh", "py", "js", "el", "admin-sh", "sudo"}
AdminEntries == {"admin-sh", "sudo"}

\* the message the triggering message replies to: none, a text message, a
\* text message with an empty body, a media message
ReplyKinds == {"none", "text", "blank", "media"}
\* reply_to_evt.content.body
ReplyBody(kind) ==
    CASE kind = "text" -> Txt("", "body", 4, 0)
      [] kind = "blank" -> Empty
      [] kind = "media" -> Txt("", "file.png", 8, 0)
\* reply_to_evt.content.url
ReplyUrl == Txt("mxc://", "media", 30, 0)
\* the downloaded file, size bytes long
FileOf(size) == Txt("", "bytes", size, 0)
MsgTypes == {"m.text", "m.image"}
NoFile == "none"
OutFiles == {NoFile, "image/png"}

\* what http.post and resp.json() may do: the call raises; status 502; a
\* body that is no JSON; a JSON body with ok false; status 500 with the JSON
\* body of a finished run; status 200 with the JSON body of a finished run
PostResults == {"exception", "502", "badjson", "notok", "500", "ok"}
\* the results whose body is read as that of a finished run
RunResults == {"500", "ok"}
ReactionKeys == {"delete", "+1"}

\* the 8 MiB cap of _get_reply_file
max_size == 8 * 1024 * 1024
FileSizes == {0, 1, max_size, max_size + 1}

(* The environments the model is checked in: the events the homeserver    *)
(* delivers and the answers the backend gives.                             *)
(* Sequential: message events of every kind, each handled after the one    *)
(* before it has returned, with the notifications of the bot's own         *)
(* changes in between; nobody else changes a room or reacts.               *)
(* Concurrent: several message handlers in flight at once, with            *)
(* notifications and changes by other users; the registry is left alone.   *)
(* Reactions: several message handlers in flight at once, with reactions   *)
(* of every kind; no other user changes a room.                            *)
(* Gate: shell commands of a trusted user, one after the other, answered   *)
(* by finished runs that propose values at and around the caps.            *)
(* Parse: raw-mode commands of a trusted user with bodies of every shape,  *)
(* one after the other, answered by finished runs.                         *)
(* Sudo: sudo commands of two administrators, one of them untrusted, and  *)
(* of a user who is none, for every target, one after the other.           *)
(* Clear: shell commands of a trusted user, one after the other, answered  *)
(* by finished runs whose devices map lacks some of the keys.              *)
(* Render: shell commands of a trusted user, one after the other, some in  *)
(* reply to a message with an empty body, answered by finished runs with   *)
(* output at and around the line and byte limits.                          *)
Sequential ==
    [concurrent |-> FALSE, ids |-> 1..MaxExecs, rooms |-> Rooms,
     msgtypes |-> MsgTypes, senders |-> Users \cup {BotMxid}, entries |-> Entries,
     replies |-> {"none", "text", "media"}, results |-> PostResults, devs |-> "all",
     outfiles |-> OutFiles, reactors |-> {}, keys |-> {}, changed |-> {},
     stdouts |-> {ShortOut}, stderrs |-> {<< >>},
     bodies |-> {BodyCmd},
     sizes |-> {1, max_size + 1}]

Concurrent ==
    [concurrent |-> TRUE, ids |-> 1..MaxConcurrent, rooms |-> {"!ok"},
     msgtypes |-> {"m.text"}, senders |-> {"@alice"}, entries |-> {"sh"},
     replies |-> {"none", "media"}, results |-> {"exception", "ok"},
     devs |-> "name", outfiles |-> OutFiles, reactors |-> {}, keys |-> {},
     changed |-> Rooms, stdouts |-> {ShortOut}, stderrs |-> {<< >>},
     bodies |-> {BodyCmd},
     sizes |-> {1, max_size + 1}]

Reactions ==
    [concurrent |-> TRUE, ids |-> 1..MaxConcurrent, rooms |-> {"!ok"},
     msgtypes |-> {"m.text"}, senders |-> {"@alice"}, entries |-> {"sh"},
     replies |-> {"media"}, results |-> {"exception", "ok"},
     devs |-> "name", outfiles |-> OutFiles, reactors |-> Users \cup {BotMxid},
     keys |-> ReactionKeys, changed |-> {}, stdouts |-> {ShortOut},
     stderrs |-> {<< >>}, bodies |-> {BodyCmd},
     sizes |-> {1, max_size + 1}]

Gate ==
    [concurrent |-> FALSE, ids |-> 1..MaxGateExecs, rooms |-> {"!ok"},
     msgtypes |-> {"m.text"}, senders |-> {"@alice"}, entries |-> {"sh"},
     replies |-> {"none", "media"}, results |-> {"ok"},
     devs |-> "gate", outfiles |-> OutFiles, reactors |-> {}, keys |-> {},
     changed |-> {}, stdouts |-> {ShortOut}, stderrs |-> {<< >>},
     bodies |-> {BodyCmd},
     sizes |-> {1, max_size + 1}]

Parse ==
    [concurrent |-> FALSE, ids |-> 1..MaxParseExecs, rooms |-> {"!ok"},
     msgtypes |-> {"m.text"}, senders |-> {"@alice"}, entries |-> {"raw"},
     replies |-> {"none", "media"}, results |-> {"ok"},
     devs |-> "name", outfiles |-> OutFiles, reactors |-> {}, keys |-> {},
     changed |-> {}, stdouts |-> {ShortOut}, stderrs |-> {<< >>},
     bodies |-> Bodies,
     sizes |-> FileSizes]

Sudo ==
    [concurrent |-> FALSE, ids |-> 1..MaxSudoExecs, rooms |-> {"!ok"},
     msgtypes |-> {"m.text"}, senders |-> {"@alice", "@root", "@mallory"},
     entries |-> {"sudo"}, replies |-> {"none", "media"}, results |-> {"ok"},
     devs |-> "name", outfiles |-> OutFiles, reactors |-> {}, keys |-> {},
     changed |-> {}, stdouts |-> {ShortOut}, stderrs |-> {<< >>},
     bodies |-> {BodyCmd}, sizes |-> {1, max_size + 1}]

Clear ==
    [concurrent |-> FALSE, ids |-> 1..MaxClearExecs, rooms |-> {"!ok"},
     msgtypes |-> {"m.text"}, senders |-> {"@alice"}, entries |-> {"sh"},
     replies |-> {"none", "media"}, results |-> {"ok"},
     devs |-> "clear", outfiles |-> OutFiles, reactors |-> {}, keys |-> {},
     changed |-> {}, stdouts |-> {ShortOut}, stderrs |-> {<< >>},
     bodies |-> {BodyCmd},
     sizes |-> {1, max_size + 1}]

Render ==
    [concurrent |-> FALSE, ids |-> 1..MaxRenderExecs, rooms |-> {"!ok"},
     msgtypes |-> {"m.text"}, senders |-> {"@alice"}, entries |-> {"sh"},
     replies |-> {"none", "blank", "media"}, results |-> {"ok"},
     devs |-> "name", outfiles |-> OutFiles, reactors |-> {}, keys |-> {},
     changed |-> {}, stdouts |-> Stdouts, stderrs |-> Stderrs,
     bodies |-> {BodyCmd},
     sizes |-> FileSizes]

----------------------------------------------------------------------------
(* Handler invocations.  A coroutine runs without interruption from one    *)
(* await to the next; pc names the call it is suspended in.                *)

NoMeta == [name |-> Empty, topic |-> Empty, avatar |-> Empty]

\* data["stdout"] and data["stderr"]
NoData == [stdout |-> << >>, stderr |-> << >>]

\* what the HEAD request or the download of _get_reply_file answered: not
\* called; raised; or a length in bytes
NoAnswer == [called |-> FALSE, ok |-> FALSE, size |-> 0]
Answer(ok, size) == [called |-> TRUE, ok |-> ok, size |-> IF ok THEN size ELSE 0]
NoAttach == [head |-> NoAnswer, got |-> NoAnswer]

\* language, args, raw and script of kwargs (args is passed by
\* arbitrary_cmd only, and is empty here for the others)
NoKwargs == [language |-> << >>, args |-> << >>, raw |-> FALSE, script |-> << >>]

NoReq == [user |-> "", home |-> << >>, language |-> << >>, args |-> << >>, raw |-> FALSE,
          script |-> << >>, admin |-> FALSE, untrusted |-> FALSE,
          devices |-> << >>]

(* evt and the locals of the handler; req is the request of the http.post  *)
(* call in flight.  Ghost fields, kept when the handler has returned:      *)
(* orig (the sender of the message as it arrived), admin (the entry point  *)
(* is admin-sh or sudo), admitted (the message passed the admission check  *)
(* as it arrived), nposts, replies (the kinds                              *)
(* of the evt.reply calls the homeserver accepted), pubs and applied (the  *)
(* fields published and written back), gate, outcome, and result (what the *)
(* http.post call came back with).  attach records, until http.post        *)
(* returns, what the two calls of _get_reply_file answered; omitted is the *)
(* set of keys that new_dev lacks.                                         *)
IdleExec ==
    [pc |-> "idle", room |-> "!ok", sender |-> BotMxid, orig |-> BotMxid,
     entry |-> "raw", body |-> << >>, kwargs |-> NoKwargs,
     reply_to |-> "none", old |-> NoMeta,
     fetched |-> [val |-> Empty, ver |-> 0], devices |-> << >>, req |-> NoReq,
     new |-> NoMeta, omitted |-> {}, out_file |-> NoFile, data |-> NoData, shown |-> NoData,
     evt_id |-> 0, notice |-> "", attach |-> NoAttach,
     admin |-> FALSE, admitted |-> FALSE, nposts |-> 0, replies |-> << >>, pubs |-> {},
     applied |-> {}, gate |-> "", result |-> "", outcome |-> ""]

\* a handler that returned or raised: its locals are gone
Finish(x, outcome) ==
    [IdleExec EXCEPT !.pc = "done", !.sender = x.sender, !.orig = x.orig,
                     !.admin = x.admin, !.admitted = x.admitted,
                     !.nposts = x.nposts, !.replies = x.replies, !.pubs = x.pubs,
                     !.applied = x.applied, !.gate = x.gate, !.result = x.result,
                     !.outcome = outcome]

Crash(x) == [Finish(x, "crashed") EXCEPT !.pc = "crashed"]

\* kwargs of the _exec call each entry point makes
Language(entry) ==
    CASE entry = "sh" -> <<"s", "h">>
      [] entry = "py" -> <<"p", "y", "t", "h", "o", "n">>
      [] entry = "js" -> <<"n", "o", "d", "e", ".", "j", "s">>
      [] entry = "el" -> <<"e", "x", "e", "c", "l", "i", "n", "e">>
      [] entry = "admin-sh" -> <<"s", "h">>
      [] entry = "sudo" -> <<"s", "h">>

\* kwargs of the _exec call of an entry point
Kwargs(entry, body) ==
    IF entry = "raw"
    THEN [f \in DOMAIN NoKwargs |-> ParseRaw(body)[f]]
    ELSE [language |-> Language(entry), args |-> << >>, raw |-> FALSE,
          script |-> body]

AdminFlag(entry) == entry \in AdminEntries

\* dict assignment cache[room] = v
Put(cache, room, v) ==
    [r \in DOMAIN cache \cup {room} |-> IF r = room THEN v ELSE cache[r]]

\* MaushBot._exec_ok
ExecOk(room, msgtype, sender) ==
    /\ room \in ConfigRooms
    /\ msgtype = "m.text"
    /\ sender # BotMxid

\* base64.b64encode(v).decode(): four characters for every three bytes
\* begun (a character of a device value taken as one byte)
B64(v) == [of |-> v, len |-> 4 * ((PyLen(v) + 2) \div 3)]

\* req_data of _exec, as json.dumps sends it
RequestOfOriginalSender(x) ==
    [user |-> x.orig, home |-> Home(x.orig),
     language |-> x.kwargs.language, args |-> x.kwargs.args,
     raw |-> x.kwargs.raw, script |-> x.kwargs.script,
     admin |-> AdminFlag(x.entry),
     untrusted |-> (x.orig \in ConfigUntrusted),
     devices |-> [k \in DOMAIN x.devices |-> B64(x.devices[k])]]
Request(x) ==
    [user |-> x.sender, home |-> Home(x.sender), language |-> x.kwargs.language, args |-> x.kwargs.args,
     raw |-> x.kwargs.raw, script |-> x.kwargs.script,
     admin |-> AdminFlag(x.entry),
     untrusted |-> (x.sender \in ConfigUntrusted),
     devices |-> [k \in DOMAIN x.devices |-> B64(x.devices[k])]]

\* _exec lines 161-178: the localpart check, then the POST
CallPost(x) == [x EXCEPT !.pc = "post", !.req = Request(x), !.nposts = @ + 1]

CheckLocalpartSkipped(x) == CallPost(x)
CheckLocalpart(x) ==
    IF ~LocalpartAllowed(Localpart(x.sender))
    THEN [x EXCEPT !.pc = "reply_notice", !.notice = "baduser"]
    ELSE CallPost(x)

\* _exec lines 139-148: the devices of the cached metadata, then the reply
GatherDevices(x) ==
    LET d1 == IF Truthy(x.old.name) THEN Put(<< >>, "name", x.old.name) ELSE << >>
        d2 == IF Truthy(x.old.topic) THEN Put(d1, "topic", x.old.topic) ELSE d1
        d == IF Truthy(x.old.avatar) THEN Put(d2, "avatar-mxc", x.old.avatar) ELSE d2
    IN  IF x.reply_to # "none"
        THEN [x EXCEPT !.devices = d, !.pc = "get_event"]
        ELSE CheckLocalpart([x EXCEPT !.devices = d])

\* get_cached_avatar, get_cached_topic, get_cached_name up to their await
FromAvatar(x, ac) ==
    IF x.room \notin DOMAIN ac
    THEN [x EXCEPT !.pc = "fetch_avatar"]
    ELSE GatherDevices([x EXCEPT !.old.avatar = ac[x.room]])

FromTopic(x, tc, ac) ==
    IF x.room \notin DOMAIN tc
    THEN [x EXCEPT !.pc = "fetch_topic"]
    ELSE FromAvatar([x EXCEPT !.old.topic = tc[x.room]], ac)

FromName(x, nc, tc, ac) ==
    IF x.room \notin DOMAIN nc
    THEN [x EXCEPT !.pc = "fetch_name"]
    ELSE FromTopic([x EXCEPT !.old.name = nc[x.room]], tc, ac)

----------------------------------------------------------------------------
InitIn(env) ==
    /\ name_cache = << >>
    /\ topic_cache = << >>
    /\ avatar_cache = << >>
    /\ allow_redact = {}
    /\ cache_ver = [r \in Rooms |-> [f \in Fields |-> 0]]
    /\ srv = [r \in Rooms |->
                [name |-> [val |-> IF r = "!ok" THEN NameA ELSE Empty, ver |-> 1],
                 topic |-> [val |-> Empty, ver |-> 1],
                 avatar |-> [val |-> IF r = "!ok" THEN AvatarA ELSE Empty, ver |-> 1]]]
    /\ sync = << >>
    /\ execs = [i \in env.ids |-> IdleExec]
    /\ msgs = << >>
    /\ reacted = {}
    /\ redacts = << >>
    /\ externals = 0
    /\ conv = IdleConv

(* A message event reaches one of the bot's handlers.  Named commands get  *)
(* only text messages of other users from the command framework; the raw   *)
(* prefix handler (arbitrary_cmd) gets every room message.                 *)
\* arbitrary_cmd / shell / python / javascript / execline lines 318-374
\* up to the first await of _exec
EnterExec(x, room, msgtype) ==
    IF ~ExecOk(room, msgtype, x.sender)
    THEN Finish(x, "ignored")
    ELSE FromName(x, name_cache, topic_cache, avatar_cache)

\* admin_shell / sudo lines 334-354
EnterAdminNoCheck(x, room, msgtype, target) ==
    EnterExec([x EXCEPT !.sender = IF x.entry = "sudo" THEN target ELSE x.orig],
              room, msgtype)
EnterAdmin(x, room, msgtype, target) ==
    IF x.orig \notin ConfigAdmins
    THEN [x EXCEPT !.pc = "reply_notice", !.notice = "notadmin"]
    ELSE EnterExec([x EXCEPT !.sender = IF x.entry = "sudo" THEN target ELSE x.orig],
                   room, msgtype)

\* arbitrary_cmd lines 320-332
EnterRaw(x, room, msgtype) ==
    IF \/ ~ExecOk(room, msgtype, x.sender)
       \/ ~StartsWith(x.body, <<"!", "!">>) /\ ~StartsWith(x.body, <<"!", "?">>)
    THEN Finish(x, "ignored")
    ELSE IF ~ParseRaw(x.body).ok
    THEN [Crash(x) EXCEPT !.outcome = "badquote", !.body = x.body]
    ELSE EnterExec(x, room, msgtype)

Start(i, room, msgtype, sender, entry, target, reply_to, body) ==
    /\ entry # "raw" => msgtype = "m.text" /\ sender # BotMxid
    /\ entry # "sudo" => target = sender
    /\ LET x0 == [IdleExec EXCEPT !.pc = "start", !.room = room, !.sender = sender,
                                  !.orig = sender, !.entry = entry, !.body = body,
                                  !.kwargs = IF entry = "raw" /\ ~ParseRaw(body).ok
                                             THEN NoKwargs ELSE Kwargs(entry, body),
                                  !.reply_to = reply_to, !.admin = AdminFlag(entry),
                                  !.admitted = ExecOk(room, msgtype, sender)]
           x1 == CASE entry \in AdminEntries -> EnterAdmin(x0, room, msgtype, target)
                   [] entry = "raw" -> EnterRaw(x0, room, msgtype)
                   [] OTHER -> EnterExec(x0, room, msgtype)
       IN  execs' = [execs EXCEPT ![i] = x1]
    /\ UNCHANGED <<name_cache, topic_cache, avatar_cache, allow_redact, cache_ver,
                   srv, sync, msgs, reacted, redacts, externals, conv>>

\* the message events the homeserver may deliver, in arrival order
StartAny(env, i) ==
    /\ execs[i].pc = "idle"
    /\ i > 1 => execs[i - 1].pc # "idle"
    /\ ~env.concurrent => \A j \in env.ids : execs[j].pc \in {"idle", "done", "crashed"}
    /\ \E room \in env.rooms, msgtype \in env.msgtypes, sender \in env.senders,
          entry \in env.entries, target \in Users \cup {BotMxid},
          reply_to \in env.replies :
            \E body \in IF entry = "raw" THEN env.bodies ELSE {Script} :
                Start(i, room, msgtype, sender, entry, target, reply_to, body)

----------------------------------------------------------------------------
(* The lazy cache fetch: get_cached_name / _topic / _avatar                *)

FieldOfPc(pc) ==
    CASE pc \in {"fetch_name", "got_name", "pub_name", "pubd_name"} -> "name"
      [] pc \in {"fetch_topic", "got_topic", "pub_topic", "pubd_topic"} -> "topic"
      [] pc \in {"fetch_avatar", "got_avatar", "pub_avatar", "pubd_avatar"} -> "avatar"

\* the homeserver answers client.get_state_event
ServeFetch(i) ==
    LET x == execs[i]
    IN  /\ x.pc \in {"fetch_name", "fetch_topic", "fetch_avatar"}
        /\ execs' = [execs EXCEPT ![i] =
                        [x EXCEPT !.fetched = srv[x.room][FieldOfPc(x.pc)],
                                  !.pc = CASE x.pc = "fetch_name" -> "got_name"
                                           [] x.pc = "fetch_topic" -> "got_topic"
                                           [] x.pc = "fetch_avatar" -> "got_avatar"]]
        /\ UNCHANGED <<name_cache, topic_cache, avatar_cache, allow_redact,
                       cache_ver, srv, sync, msgs, reacted, redacts, externals, conv>>

\* the value get_cached_* stores: name and topic stripped, the avatar url as
\* it came
FetchedValue(f, v) == IF f = "avatar" THEN v ELSE Strip(v)

\* the coroutine resumes with the state event and fills the cache entry
ResumeFetch(i) ==
    LET x == execs[i]
        f == FieldOfPc(x.pc)
        v == FetchedValue(f, x.fetched.val)
        nc == IF f = "name" THEN Put(name_cache, x.room, v) ELSE name_cache
        tc == IF f = "topic" THEN Put(topic_cache, x.room, v) ELSE topic_cache
        ac == IF f = "avatar" THEN Put(avatar_cache, x.room, v) ELSE avatar_cache
        y == [x EXCEPT !.fetched = IdleExec.fetched]
        x1 == CASE f = "name" -> FromTopic([y EXCEPT !.old.name = nc[x.room]], tc, ac)
                [] f = "topic" -> FromAvatar([y EXCEPT !.old.topic = tc[x.room]], ac)
                [] f = "avatar" -> GatherDevices([y EXCEPT !.old.avatar = ac[x.room]])
    IN  /\ x.pc \in {"got_name", "got_topic", "got_avatar"}
        /\ name_cache' = nc
        /\ topic_cache' = tc
        /\ avatar_cache' = ac
        /\ cache_ver' = [cache_ver EXCEPT ![x.room][f] = x.fetched.ver]
        /\ execs' = [execs EXCEPT ![i] = x1]
        /\ UNCHANGED <<allow_redact, srv, sync, msgs, reacted, redacts, externals, conv>>

----------------------------------------------------------------------------
(* The replied-to message and its file: _exec lines 146-159 and            *)
(* _get_reply_file                                                         *)

\* client.get_event returns
GetEvent(i) ==
    LET x == execs[i]
        d == Put(x.devices, "reply", ReplyBody(x.reply_to))
        x1 == IF x.reply_to = "media"
              THEN [x EXCEPT !.devices = Put(d, "reply-mxc", ReplyUrl), !.pc = "head"]
              ELSE CheckLocalpart([x EXCEPT !.devices = d])
    IN  /\ x.pc = "get_event"
        /\ execs' = [execs EXCEPT ![i] = x1]
        /\ UNCHANGED <<name_cache, topic_cache, avatar_cache, allow_redact,
                       cache_ver, srv, sync, msgs, reacted, redacts, externals, conv>>

\* the HEAD request of _get_reply_file: it raises (swallowed by _exec), or
\* declares a Content-Length
HeadRequest(i, ok, declared) ==
    LET x == [execs[i] EXCEPT !.attach.head = Answer(ok, declared)]
        x1 == IF ok /\ ~(declared > max_size)
              THEN [x EXCEPT !.pc = "download"]
              ELSE CheckLocalpart(x)
    IN  /\ x.pc = "head"
        /\ execs' = [execs EXCEPT ![i] = x1]
        /\ UNCHANGED <<name_cache, topic_cache, avatar_cache, allow_redact,
                       cache_ver, srv, sync, msgs, reacted, redacts, externals, conv>>

\* client.download_media: it raises (swallowed), or returns actual bytes
DownloadMediaUnchecked(i, ok, actual) ==
    LET x == [execs[i] EXCEPT !.attach.got = Answer(ok, actual)]
        x1 == IF ok /\ actual > 0
              THEN CheckLocalpart([x EXCEPT !.devices = Put(@, "reply-file",
                                                            FileOf(actual))])
              ELSE CheckLocalpart(x)
    IN  /\ x.pc = "download"
        /\ execs' = [execs EXCEPT ![i] = x1]
        /\ UNCHANGED <<name_cache, topic_cache, avatar_cache, allow_redact,
                       cache_ver, srv, sync, msgs, reacted, redacts, externals, conv>>
DownloadMedia(i, ok, actual) ==
    LET x == [execs[i] EXCEPT !.attach.got = Answer(ok, actual)]
        x1 == IF ok /\ ~(actual > max_size) /\ actual > 0
              THEN CheckLocalpart([x EXCEPT !.devices = Put(@, "reply-file",
                                                            FileOf(actual))])
              ELSE CheckLocalpart(x)
    IN  /\ x.pc = "download"
        /\ execs' = [execs EXCEPT ![i] = x1]
        /\ UNCHANGED <<name_cache, topic_cache, avatar_cache, allow_redact,
                       cache_ver, srv, sync, msgs, reacted, redacts, externals, conv>>

HeadRequestAny(env, i) ==
    /\ execs[i].pc = "head"
    /\ \/ HeadRequest(i, FALSE, 0)
       \/ \E declared \in env.sizes : HeadRequest(i, TRUE, declared)

DownloadMediaAny(env, i) ==
    /\ execs[i].pc = "download"
    /\ \/ DownloadMedia(i, FALSE, 0)
       \/ \E actual \in env.sizes : DownloadMedia(i, TRUE, actual)

----------------------------------------------------------------------------
(* The backend call: _exec lines 177-190                                   *)

\* the trust gate of _exec lines 231-242
Changed(new, old) ==
    new.name # old.name \/ new.topic # old.topic \/ new.avatar # old.avatar

TrustGateIgnoresUntrusted(sender, new, old) ==
    /\ \/ PyLen(new.name) > 100 /\ new.name # old.name
       \/ PyLen(new.topic) > 1000 /\ new.topic # old.topic
       \/ /\ ~StartsWithMxc(new.avatar) \/ PyLen(new.avatar) > 100
          /\ new.avatar # old.avatar
          /\ Truthy(new.avatar)
    /\ Changed(new, old)
TrustGateCapsInclusive(sender, new, old) ==
    /\ \/ sender \in ConfigUntrusted
       \/ PyLen(new.name) >= 100 /\ new.name # old.name
       \/ PyLen(new.topic) >= 1000 /\ new.topic # old.topic
       \/ /\ ~StartsWithMxc(new.avatar) \/ PyLen(new.avatar) >= 100
          /\ new.avatar # old.avatar
          /\ Truthy(new.avatar)
    /\ Changed(new, old)
TrustGateNameOnly(sender, new, old) ==
    /\ \/ sender \in ConfigUntrusted
       \/ PyLen(new.name) > 100 /\ new.name # old.name
    /\ Changed(new, old)
TrustGateRejects(sender, new, old) ==
    /\ \/ sender \in ConfigUntrusted
       \/ PyLen(new.name) > 100 /\ new.name # old.name
       \/ PyLen(new.topic) > 1000 /\ new.topic # old.topic
       \/ /\ ~StartsWithMxc(new.avatar) \/ PyLen(new.avatar) > 100
          /\ new.avatar # old.avatar
          /\ Truthy(new.avatar)
    /\ Changed(new, old)

\* new_dev.get(key) or "" of _exec lines 222, 225, 228
GetOrPlaceholder(dev, f) == IF f \in DOMAIN dev THEN dev[f] ELSE NameB
Get(dev, f) == IF f \in DOMAIN dev THEN dev[f] ELSE Empty

\* new_name / new_topic / new_avatar of _exec lines 221-230
NewMeta(dev) ==
    [name |-> Strip(Get(dev, "name")), topic |-> Strip(Get(dev, "topic")),
     avatar |-> Strip(Get(dev, "avatar"))]

\* _exec lines 192-217: the output reply is composed and sent
AfterPostGateFirst(x) ==
    IF TrustGateRejects(x.sender, x.new, x.old)
    THEN [x EXCEPT !.pc = "reply_notice", !.notice = "refusal", !.gate = "rejected"]
    ELSE [x EXCEPT !.pc = "reply_output"]
AfterPost(x) == [x EXCEPT !.pc = "reply_output"]

PostRetries(i, result, dev, out_file, data) ==
    LET x == [execs[i] EXCEPT !.entry = IdleExec.entry, !.body = << >>,
                              !.kwargs = NoKwargs, !.reply_to = "none",
                              !.devices = << >>, !.req = NoReq,
                              !.attach = NoAttach, !.result = result]
    IN  /\ x.pc = "post"
        /\ result \notin RunResults =>
               dev = NoMeta /\ out_file = NoFile /\ data = NoData
        /\ execs' = [execs EXCEPT ![i] =
             CASE result = "exception" -> CallPost(x)
               [] result = "502" -> [x EXCEPT !.pc = "reply_notice", !.notice = "down"]
               [] result = "badjson" -> [Crash(x) EXCEPT !.outcome = "unparsed"]
               [] result = "notok" -> [x EXCEPT !.pc = "reply_notice", !.notice = "error"]
               [] result \in RunResults ->
                    AfterPost([x EXCEPT !.new = NewMeta(dev),
                                        !.omitted = Fields \ DOMAIN dev,
                                        !.out_file = out_file,
                                        !.data = data, !.shown = Rendered(data)])]
        /\ UNCHANGED <<name_cache, topic_cache, avatar_cache, allow_redact,
                       cache_ver, srv, sync, msgs, reacted, redacts, externals, conv>>
Post(i, result, dev, out_file, data) ==
    LET x == [execs[i] EXCEPT !.entry = IdleExec.entry, !.body = << >>,
                              !.kwargs = NoKwargs, !.reply_to = "none",
                              !.devices = << >>, !.req = NoReq,
                              !.attach = NoAttach, !.result = result]
    IN  /\ x.pc = "post"
        /\ result \notin RunResults =>
               dev = NoMeta /\ out_file = NoFile /\ data = NoData
        /\ execs' = [execs EXCEPT ![i] =
             CASE result = "exception" -> [x EXCEPT !.pc = "reply_notice", !.notice = "failed"]
               [] result = "502" -> [x EXCEPT !.pc = "reply_notice", !.notice = "down"]
               [] result = "badjson" -> [Crash(x) EXCEPT !.outcome = "unparsed"]
               [] result = "notok" -> [x EXCEPT !.pc = "reply_notice", !.notice = "error"]
               [] result \in RunResults ->
                    AfterPost([x EXCEPT !.new = NewMeta(dev),
                                        !.omitted = Fields \ DOMAIN dev,
                                        !.out_file = out_file,
                                        !.data = data, !.shown = Rendered(data)])]
        /\ UNCHANGED <<name_cache, topic_cache, avatar_cache, allow_redact,
                       cache_ver, srv, sync, msgs, reacted, redacts, externals, conv>>

\* the responses the backend may give
BackendDevices(env, old) ==
    CASE env.devs = "gate" ->
         [name : DeviceValsGate("name", old.name),
          topic : DeviceValsGate("topic", old.topic),
          avatar : DeviceValsGate("avatar", old.avatar)]
      [] env.devs = "name" ->
         [name : DeviceValsName("name", old.name),
          topic : DeviceValsName("topic", old.topic),
          avatar : DeviceValsName("avatar", old.avatar)]
      [] env.devs = "clear" ->
         UNION {{dev \in [keys -> UNION {DeviceValsClear(f, old[f]) : f \in keys}] :
                    \A f \in keys : dev[f] \in DeviceValsClear(f, old[f])} :
                keys \in SUBSET Fields}
      [] env.devs = "all" ->
         [name : DeviceVals("name", old.name),
          topic : DeviceVals("topic", old.topic),
          avatar : DeviceVals("avatar", old.avatar)]

PostAny(env, i) ==
    /\ execs[i].pc = "post"
    /\ \/ \E result \in env.results \ RunResults :
               Post(i, result, NoMeta, NoFile, NoData)
       \/ \E result \in env.results \cap RunResults, out_file \in env.outfiles,
             dev \in BackendDevices(env, execs[i].old),
             data \in [stdout : env.stdouts, stderr : env.stderrs] :
               Post(i, result, dev, out_file, data)

----------------------------------------------------------------------------
(* Replies, the registry and the reaction affordance                       *)

NoticeOutcome(notice) ==
    CASE notice = "notadmin" -> "notadmin"
      [] notice = "baduser" -> "baduser"
      [] notice = "failed" -> "failed"
      [] notice = "down" -> "down"
      [] notice = "error" -> "error"
      [] notice = "refusal" -> "rejected"

\* the homeserver accepts the message of an evt.reply call and gives it an id
ServeReply(i) ==
    LET x == execs[i]
        id == Len(msgs) + 1
    IN  /\ x.pc \in {"reply_output", "reply_media", "reply_notice"}
        /\ msgs' = Append(msgs,
                      [exec |-> i,
                       kind |-> CASE x.pc = "reply_output" -> "output"
                                  [] x.pc = "reply_media" -> "media"
                                  [] x.pc = "reply_notice" -> x.notice])
        /\ execs' = [execs EXCEPT ![i] =
             CASE x.pc = "reply_output" ->
                    [x EXCEPT !.pc = "got_output", !.evt_id = id,
                              !.replies = Append(@, "output")]
               [] x.pc = "reply_media" ->
                    [x EXCEPT !.pc = "got_media", !.evt_id = id,
                              !.replies = Append(@, "media")]
               [] x.pc = "reply_notice" ->
                    Finish([x EXCEPT !.replies = Append(@, x.notice)],
                           NoticeOutcome(x.notice))]
        /\ UNCHANGED <<name_cache, topic_cache, avatar_cache, allow_redact,
                       cache_ver, srv, sync, reacted, redacts, externals, conv>>

\* _exec lines 217-219 and 283-295: evt.reply returns the id, the id is
\* registered and client.react is called
RegisterSkipped(registry, id) == registry
Register(registry, id) == registry \cup {id}

ResumeReply(i) ==
    LET x == execs[i]
    IN  /\ x.pc \in {"got_output", "got_media"}
        /\ allow_redact' = Register(allow_redact, x.evt_id)
        /\ execs' = [execs EXCEPT ![i] =
                        [x EXCEPT !.pc = IF x.pc = "got_output" THEN "react_output"
                                         ELSE "react_media"]]
        /\ UNCHANGED <<name_cache, topic_cache, avatar_cache, cache_ver, srv, sync,
                       msgs, reacted, redacts, externals, conv>>

----------------------------------------------------------------------------
(* The trust gate and the metadata mutations: _exec lines 231-265          *)

\* _exec lines 266-295 up to the upload
FromOutFile(x) ==
    IF x.out_file # NoFile THEN [x EXCEPT !.pc = "upload"] ELSE Finish(x, "completed")

\* _exec lines 259, 252, 245: the next field to publish
FromPubAvatar(x) ==
    IF x.new.avatar # x.old.avatar THEN [x EXCEPT !.pc = "pub_avatar"] ELSE FromOutFile(x)

FromPubTopicAlways(x) == [x EXCEPT !.pc = "pub_topic"]
FromPubTopic(x) ==
    IF x.new.topic # x.old.topic THEN [x EXCEPT !.pc = "pub_topic"] ELSE FromPubAvatar(x)

FromPubNameSkipped(x) == FromOutFile(x)
FromPubName(x) ==
    IF x.new.name # x.old.name THEN [x EXCEPT !.pc = "pub_name"] ELSE FromPubTopic(x)

\* _exec lines 231-244, then 245
AfterOutputReplyKeepsFile(x) ==
    IF TrustGateRejects(x.sender, x.new, x.old)
    THEN IF x.out_file # NoFile
         THEN [x EXCEPT !.pc = "upload", !.gate = "rejected"]
         ELSE [x EXCEPT !.pc = "reply_notice", !.notice = "refusal",
                        !.gate = "rejected"]
    ELSE FromPubName([x EXCEPT !.gate = IF Changed(x.new, x.old) THEN "passed"
                                         ELSE "unchanged"])
AfterOutputReply(x) ==
    IF TrustGateRejects(x.sender, x.new, x.old)
    THEN [x EXCEPT !.pc = "reply_notice", !.notice = "refusal", !.gate = "rejected"]
    ELSE FromPubName([x EXCEPT !.gate = IF Changed(x.new, x.old) THEN "passed"
                                         ELSE "unchanged"])

\* client.react returns: after the output reply the gate is evaluated, after
\* the media reply _exec returns
React(i) ==
    LET x == execs[i]
    IN  /\ x.pc \in {"react_output", "react_media"}
        /\ reacted' = reacted \cup {x.evt_id}
        /\ execs' = [execs EXCEPT ![i] =
                        IF x.pc = "react_output" THEN AfterOutputReply(x)
                        ELSE Finish(x, "completed")]
        /\ UNCHANGED <<name_cache, topic_cache, avatar_cache, allow_redact,
                       cache_ver, srv, sync, msgs, redacts, externals, conv>>

\* the homeserver accepts the state event of client.send_state_event
PublishCachesFirst(i) ==
    LET x == execs[i]
        f == FieldOfPc(x.pc)
        ev == [val |-> x.new[f], ver |-> srv[x.room][f].ver + 1]
    IN  /\ x.pc \in {"pub_name", "pub_topic", "pub_avatar"}
        /\ srv' = [srv EXCEPT ![x.room][f] = ev]
        /\ sync' = Append(sync, [room |-> x.room, field |-> f, val |-> ev.val,
                                 ver |-> ev.ver])
        /\ name_cache' = IF f = "name" THEN Put(name_cache, x.room, x.new.name)
                         ELSE name_cache
        /\ topic_cache' = IF f = "topic" THEN Put(topic_cache, x.room, x.new.topic)
                          ELSE topic_cache
        /\ avatar_cache' = IF f = "avatar" THEN Put(avatar_cache, x.room, x.new.avatar)
                           ELSE avatar_cache
        /\ execs' = [execs EXCEPT ![i] =
                        [x EXCEPT !.fetched = ev, !.pubs = @ \cup {f},
                                  !.pc = CASE f = "name" -> "pubd_name"
                                           [] f = "topic" -> "pubd_topic"
                                           [] f = "avatar" -> "pubd_avatar"]]
        /\ UNCHANGED <<allow_redact, cache_ver, msgs, reacted, redacts, externals,
                       conv>>
Publish(i) ==
    LET x == execs[i]
        f == FieldOfPc(x.pc)
        ev == [val |-> x.new[f], ver |-> srv[x.room][f].ver + 1]
    IN  /\ x.pc \in {"pub_name", "pub_topic", "pub_avatar"}
        /\ srv' = [srv EXCEPT ![x.room][f] = ev]
        /\ sync' = Append(sync, [room |-> x.room, field |-> f, val |-> ev.val,
                                 ver |-> ev.ver])
        /\ execs' = [execs EXCEPT ![i] =
                        [x EXCEPT !.fetched = ev, !.pubs = @ \cup {f},
                                  !.pc = CASE f = "name" -> "pubd_name"
                                           [] f = "topic" -> "pubd_topic"
                                           [] f = "avatar" -> "pubd_avatar"]]
        /\ UNCHANGED <<name_cache, topic_cache, avatar_cache, allow_redact,
                       cache_ver, msgs, reacted, redacts, externals, conv>>

\* send_state_event returns and the cache entry is overwritten
ResumePublish(i) ==
    LET x == execs[i]
        f == FieldOfPc(x.pc)
        y == [x EXCEPT !.fetched = IdleExec.fetched, !.applied = @ \cup {f}]
    IN  /\ x.pc \in {"pubd_name", "pubd_topic", "pubd_avatar"}
        /\ name_cache' = IF f = "name" THEN Put(name_cache, x.room, x.new.name)
                         ELSE name_cache
        /\ topic_cache' = IF f = "topic" THEN Put(topic_cache, x.room, x.new.topic)
                          ELSE topic_cache
        /\ avatar_cache' = IF f = "avatar" THEN Put(avatar_cache, x.room, x.new.avatar)
                           ELSE avatar_cache
        /\ cache_ver' = [cache_ver EXCEPT ![x.room][f] = x.fetched.ver]
        /\ execs' = [execs EXCEPT ![i] =
                        CASE f = "name" -> FromPubTopic(y)
                          [] f = "topic" -> FromPubAvatar(y)
                          [] f = "avatar" -> FromOutFile(y)]
        /\ UNCHANGED <<allow_redact, srv, sync, msgs, reacted, redacts, externals, conv>>

\* client.upload_media returns and the media reply is sent
Upload(i) ==
    LET x == execs[i]
    IN  /\ x.pc = "upload"
        /\ execs' = [execs EXCEPT ![i] = [x EXCEPT !.pc = "reply_media"]]
        /\ UNCHANGED <<name_cache, topic_cache, avatar_cache, allow_redact,
                       cache_ver, srv, sync, msgs, reacted, redacts, externals, conv>>

\* a call to the homeserver raises (the request or its response is lost);
\* nothing in _exec catches it
TransportPcs ==
    {"fetch_name", "got_name", "fetch_topic", "got_topic", "fetch_avatar",
     "got_avatar", "get_event", "reply_output", "got_output", "react_output",
     "reply_media", "got_media", "react_media", "reply_notice", "pub_name",
     "pubd_name", "pub_topic", "pubd_topic", "pub_avatar", "pubd_avatar", "upload"}

TransportFail(i) ==
    /\ execs[i].pc \in TransportPcs
    /\ execs' = [execs EXCEPT ![i] = Crash(execs[i])]
    /\ UNCHANGED <<name_cache, topic_cache, avatar_cache, allow_redact, cache_ver,
                   srv, sync, msgs, reacted, redacts, externals, conv>>

----------------------------------------------------------------------------
(* The other event handlers                                                *)

\* MaushBot.reaction
ReactionAllowedNoKeyCheck(target, key, sender) ==
    /\ target \in allow_redact
    /\ sender # BotMxid
ReactionAllowed(target, key, sender) ==
    /\ target \in allow_redact
    /\ key = "delete"
    /\ sender # BotMxid

RegistryKept(registry, id) == registry
RegistryAfterRedact(registry, id) == registry \ {id}

Reaction(target, key, sender) ==
    /\ IF ReactionAllowed(target, key, sender)
       THEN /\ allow_redact' = RegistryAfterRedact(allow_redact, target)
            /\ redacts' = Append(redacts, [id |-> target, by |-> sender,
                                           key |-> key])
       ELSE UNCHANGED <<allow_redact, redacts, conv>>
    /\ UNCHANGED <<name_cache, topic_cache, avatar_cache, cache_ver, srv, sync,
                   execs, msgs, reacted, externals, conv>>

\* the reaction events the homeserver may deliver: any user reacts to any
\* message (id 0: a message the bot did not send); the bot's own reactions
\* come back too
ReactionAny(env) ==
    /\ Len(redacts) < MaxRedactCalls
    /\ \E target \in 0..Len(msgs), key \in env.keys, sender \in env.reactors :
         /\ sender = BotMxid => key = "delete" /\ target \in reacted
         /\ Reaction(target, key, sender)

\* another user changes a room's name, topic or avatar
ExternalChange(room, f, v) ==
    LET ev == [val |-> v, ver |-> srv[room][f].ver + 1]
    IN  /\ externals' = externals + 1
        /\ srv' = [srv EXCEPT ![room][f] = ev]
        /\ sync' = Append(sync, [room |-> room, field |-> f, val |-> v,
                                 ver |-> ev.ver])
        /\ UNCHANGED <<name_cache, topic_cache, avatar_cache, allow_redact,
                       cache_ver, execs, msgs, reacted, redacts, conv>>

ExternalChangeAny(env) ==
    /\ externals < MaxExternal
    /\ \E room \in env.changed, f \in Fields : \E v \in ExternalVals(f) :
            ExternalChange(room, f, v)

\* name_handler / topic_handler / avatar_handler
Notify ==
    /\ sync # << >>
    /\ LET ev == sync[1]
           v == Strip(ev.val)
       IN  /\ name_cache' = IF ev.field = "name" THEN Put(name_cache, ev.room, v)
                            ELSE name_cache
           /\ topic_cache' = IF ev.field = "topic" THEN Put(topic_cache, ev.room, v)
                             ELSE topic_cache
           /\ avatar_cache' = IF ev.field = "avatar" THEN Put(avatar_cache, ev.room, v)
                              ELSE avatar_cache
           /\ cache_ver' = [cache_ver EXCEPT ![ev.room][ev.field] = ev.ver]
    /\ sync' = Tail(sync)
    /\ UNCHANGED <<allow_redact, srv, execs, msgs, reacted, redacts, externals, conv>>

----------------------------------------------------------------------------
ExecSteps(env) ==
    \/ \E i \in env.ids : StartAny(env, i)
    \/ \E i \in env.ids : ServeFetch(i)
    \/ \E i \in env.ids : ResumeFetch(i)
    \/ \E i \in env.ids : GetEvent(i)
    \/ \E i \in env.ids : HeadRequestAny(env, i)
    \/ \E i \in env.ids : DownloadMediaAny(env, i)
    \/ \E i \in env.ids : PostAny(env, i)
    \/ \E i \in env.ids : ServeReply(i)
    \/ \E i \in env.ids : ResumeReply(i)
    \/ \E i \in env.ids : React(i)
    \/ \E i \in env.ids : Publish(i)
    \/ \E i \in env.ids : ResumePublish(i)
    \/ \E i \in env.ids : Upload(i)
    \/ \E i \in env.ids : TransportFail(i)
    \/ Notify

Init == InitIn(Sequential)
Next == ExecSteps(Sequential)
Spec == Init /\ [][Next]_vars

InitConcurrent == InitIn(Concurrent)
NextConcurrent == ExecSteps(Concurrent) \/ ExternalChangeAny(Concurrent)
SpecConcurrent == InitConcurrent /\ [][NextConcurrent]_vars

InitRender == InitIn(Render)
NextRender == ExecSteps(Render)
SpecRender == InitRender /\ [][NextRender]_vars

InitParse == InitIn(Parse)
NextParse == ExecSteps(Parse)
SpecParse == InitParse /\ [][NextParse]_vars

\* the converter on texts of up to MaxInstr instructions
InitAnsi == InitIn(Render)
NextAnsi ==
    \/ ConvStart(TRUE)
    \/ ConvStr(TRUE)
    \/ ConvColor(TRUE)
    \/ ConvAttribute(TRUE)
    \/ ConvOther(TRUE)
    \/ ConvRaise
    \/ ConvReturn
SpecAnsi == InitAnsi /\ [][NextAnsi]_vars

\* the style state of the converter on texts of any length
InitStyle == InitIn(Render)
NextStyle ==
    \/ ConvStart(FALSE)
    \/ ConvStr(FALSE)
    \/ ConvColor(FALSE)
    \/ ConvAttribute(FALSE)
    \/ ConvOther(FALSE)
SpecStyle == InitStyle /\ [][NextStyle]_vars

InitSudo == InitIn(Sudo)
NextSudo == ExecSteps(Sudo)
SpecSudo == InitSudo /\ [][NextSudo]_vars

InitClear == InitIn(Clear)
NextClear == ExecSteps(Clear)
SpecClear == InitClear /\ [][NextClear]_vars

InitGate == InitIn(Gate)
NextGate == ExecSteps(Gate)
SpecGate == InitGate /\ [][NextGate]_vars

InitReactions == InitIn(Reactions)
NextReactions == ExecSteps(Reactions) \/ ReactionAny(Reactions)
SpecReactions == InitReactions /\ [][NextReactions]_vars

----------------------------------------------------------------------------
(* Properties                                                              *)

Started == {i \in DOMAIN execs : execs[i].pc # "idle"}
MsgIds == 1..Len(msgs)
OutputKinds == {"output", "media"}
RedactedIds == {redacts[k].id : k \in 1..Len(redacts)}

\* the cache dict of a field
CacheOf(f) ==
    CASE f = "name" -> name_cache
      [] f = "topic" -> topic_cache
      [] f = "avatar" -> avatar_cache

\* the handler is past the trust gate and has not returned
PastGatePcs ==
    {"reply_notice", "pub_name", "pubd_name", "pub_topic", "pubd_topic",
     "pub_avatar", "pubd_avatar", "upload", "reply_media", "got_media",
     "react_media"}

\* every proposed value is within its cap
WithinCaps(new) ==
    /\ PyLen(new.name) <= 100
    /\ PyLen(new.topic) <= 1000
    /\ ~Truthy(new.avatar) \/ (StartsWithMxc(new.avatar) /\ PyLen(new.avatar) <= 100)

(* C1: a message that fails the admission check (room not allowed, not     *)
(* plain text, or sent by the bot) is silently ignored at every entry      *)
(* point: the handler sends no reply and makes no backend request.         *)
C1_AdmissionFailureIsSilent ==
    \A i \in Started :
        ~execs[i].admitted =>
            /\ execs[i].replies = << >>
            /\ execs[i].nposts = 0
            /\ execs[i].pc \notin {"reply_notice", "reply_output", "reply_media", "post"}

(* C2: when the acting sender is untrusted and the backend proposes a      *)
(* name, topic or avatar that differs from the old value, the handler      *)
(* answers with the refusal, publishes no state event and writes no cache  *)
(* entry, also when every proposed value is within its cap.                *)
C2_UntrustedMutationRejected ==
    \A i \in Started :
        LET x == execs[i]
        IN  x.sender \in ConfigUntrusted =>
              /\ x.pubs = {}
              /\ x.applied = {}
              /\ x.pc \notin {"pub_name", "pubd_name", "pub_topic", "pubd_topic",
                              "pub_avatar", "pubd_avatar"}
              /\ x.gate # "passed"
              /\ x.pc \in PastGatePcs /\ x.notice \notin {"baduser", "failed", "down", "error", "notadmin"}
                 /\ Changed(x.new, x.old) =>
                    x.pc = "reply_notice" /\ x.notice = "refusal"
              /\ x.gate = "rejected" /\ x.pc = "done" =>
                    x.replies = <<"output", "refusal">>

C2_Witness ==
    \E i \in Started :
        /\ execs[i].sender \in ConfigUntrusted
        /\ execs[i].pc = "reply_notice"
        /\ execs[i].notice = "refusal"
        /\ Changed(execs[i].new, execs[i].old)
        /\ WithinCaps(execs[i].new)

(* C3, as specified: in an execution that ends in a trust-gate rejection   *)
(* the refusal is the only reply sent, the output of the run is never      *)
(* shown.                                                                  *)
C3_OnlyRefusalShown ==
    \A i \in Started :
        execs[i].outcome = "rejected" => execs[i].replies = <<"refusal">>

(* C3, as the code has it: in an execution that ends in a trust-gate       *)
(* rejection the output reply has been sent before the gate is evaluated;  *)
(* the refusal is the second and last reply, and no media reply, state     *)
(* event or cache write follows it.                                        *)
C3_OutputThenRefusal ==
    \A i \in Started :
        LET x == execs[i]
        IN  /\ x.outcome = "rejected" =>
                /\ x.replies = <<"output", "refusal">>
                /\ x.pubs = {}
                /\ x.applied = {}
            /\ x.pc = "reply_notice" /\ x.notice = "refusal" =>
                x.replies = <<"output">>

C3_Witness == \E i \in Started : execs[i].outcome = "rejected"

(* C4: a registered message id is retracted exactly once: client.redact is *)
(* called at most once for an id, by a delete reaction of a user other     *)
(* than the bot, and from then on the id is no longer registered, so a     *)
(* later identical reaction does nothing.                                  *)
C4_RetractedExactlyOnce ==
    /\ \A j, k \in 1..Len(redacts) : redacts[j].id = redacts[k].id => j = k
    /\ \A k \in 1..Len(redacts) : redacts[k].id \notin allow_redact

C4_Witness ==
    /\ Len(redacts) = 1
    /\ Len(redacts) < MaxRedactCalls
    /\ allow_redact # {}

(* C5: the reaction handler redacts only a registered id, on the delete    *)
(* key, for a reactor other than the bot, and the registry loses an id     *)
(* only that way: every redacted message is an output or media reply of    *)
(* the bot, and the bot's own reaction never counts.                       *)
C5_RedactOnlyRegistered ==
    /\ \A k \in 1..Len(redacts) :
          /\ redacts[k].key = "delete"
          /\ redacts[k].by # BotMxid
          /\ redacts[k].id \in MsgIds
          /\ msgs[redacts[k].id].kind \in OutputKinds
    /\ allow_redact \subseteq {id \in MsgIds : msgs[id].kind \in OutputKinds}
    /\ \A id \in MsgIds :
          /\ msgs[id].kind \in OutputKinds
          /\ execs[msgs[id].exec].pc = "done"
          => id \in allow_redact \cup RedactedIds

C5_Witness ==
    /\ Len(redacts) >= 1
    /\ \E id \in reacted : id \in allow_redact
    /\ \E id \in MsgIds : msgs[id].kind \notin OutputKinds

(* C6, as specified: every reply the handler sends for an execution,       *)
(* notices and refusals included, is registered and carries the delete     *)
(* reaction.                                                               *)
C6_EveryReplyRegistered ==
    \A id \in MsgIds :
        execs[msgs[id].exec].pc = "done" => id \in allow_redact /\ id \in reacted

(* C6, as the code has it: every output reply and every media reply is    *)
(* registered when evt.reply returns its id and carries the delete         *)
(* reaction when client.react returns; a notice or refusal reply is never  *)
(* registered and never gets the reaction.                                 *)
C6_OutputRepliesRegistered ==
    \A id \in MsgIds :
        LET x == execs[msgs[id].exec]
            returning == x.pc \in {"got_output", "got_media"} /\ x.evt_id = id
            reacting == x.pc \in {"react_output", "react_media"} /\ x.evt_id = id
        IN  IF msgs[id].kind \in OutputKinds
            THEN /\ x.pc # "crashed" /\ ~returning => id \in allow_redact
                 /\ x.pc # "crashed" /\ ~returning /\ ~reacting => id \in reacted
                 /\ returning => id \notin allow_redact
                 /\ id \in reacted => id \in allow_redact
            ELSE id \notin allow_redact /\ id \notin reacted

C6_Witness ==
    /\ \E id \in MsgIds : msgs[id].kind = "output" /\ id \in allow_redact /\ id \in reacted
    /\ \E id \in MsgIds : msgs[id].kind = "media" /\ id \in allow_redact /\ id \in reacted
    /\ \E id \in MsgIds : msgs[id].kind = "refusal"

(* C7: a notification always wins over the cache: no cache entry is ever   *)
(* overwritten with an older version of the room state than it holds, and  *)
(* when no handler is in flight and no notification is waiting every cache *)
(* entry equals the room state.                                            *)
Quiescent ==
    /\ sync = << >>
    /\ \A i \in DOMAIN execs : execs[i].pc \in {"idle", "done", "crashed"}

CacheMatchesTruth ==
    \A f \in Fields : \A r \in DOMAIN CacheOf(f) :
        CacheOf(f)[r] = FetchedValue(f, srv[r][f].val)

C7_NotificationsWin ==
    /\ [][\A r \in Rooms, f \in Fields : cache_ver'[r][f] >= cache_ver[r][f]]_vars
    /\ [](Quiescent => CacheMatchesTruth)

(* C8: between an execution's read of the old name, topic and avatar and   *)
(* its write-back nothing else changes the room's cache entries: while the *)
(* handler is on its way to publish, each entry it has not published yet   *)
(* still holds the old value the mutation is computed against.             *)
ReadToWriteBackPcs ==
    {"get_event", "head", "download", "post", "reply_output", "got_output",
     "react_output", "pub_name", "pubd_name", "pub_topic", "pubd_topic", "pub_avatar"}

C8_NoInterveningChange ==
    \A i \in Started :
        LET x == execs[i]
        IN  x.pc \in ReadToWriteBackPcs =>
              \A f \in Fields \ x.pubs :
                  /\ x.room \in DOMAIN CacheOf(f)
                  /\ CacheOf(f)[x.room] = x.old[f]

(* C9: no backend request is made for an acting sender whose localpart     *)
(* does not match the allowed pattern: the execution that reaches the      *)
(* check sends exactly one reply, the notice, and posts nothing, registers *)
(* nothing and changes no metadata.                                        *)
C9_BadLocalpartNeverPosted ==
    \A i \in Started :
        LET x == execs[i]
        IN  ~LocalpartAllowed(Localpart(x.sender)) =>
              /\ x.nposts = 0
              /\ x.pc # "post"
              /\ x.req = NoReq
              /\ x.pubs = {} /\ x.applied = {}
              /\ \A id \in MsgIds : msgs[id].exec = i => id \notin allow_redact
              /\ Len(x.replies) <= 1
              /\ x.pc = "done" /\ x.admitted /\ (x.admin => x.orig \in ConfigAdmins) =>
                    x.outcome = "baduser" /\ x.replies = <<"baduser">>

C9_Witness ==
    \E i \in Started :
        /\ ~LocalpartAllowed(Localpart(execs[i].sender))
        /\ execs[i].outcome = "baduser"
        /\ execs[i].replies = <<"baduser">>

(* C10: a backend request with the admin flag is made only for a message   *)
(* whose original sender is an admin; a sender of admin-sh or sudo who is  *)
(* not an admin gets the refusal reply and no backend request.             *)
C10_AdminFlagOnlyForAdmins ==
    \A i \in Started :
        LET x == execs[i]
        IN  /\ x.req.admin => x.orig \in ConfigAdmins
            /\ x.admin /\ x.orig \notin ConfigAdmins =>
                 /\ x.nposts = 0
                 /\ \/ x.pc = "reply_notice" /\ x.notice = "notadmin" /\ x.replies = << >>
                    \/ x.pc = "done" /\ x.outcome = "notadmin" /\ x.replies = <<"notadmin">>
                    \/ x.pc = "crashed" /\ x.replies = << >>

C10_Witness ==
    /\ \E i \in Started :
          execs[i].admin /\ execs[i].orig \notin ConfigAdmins /\ execs[i].outcome = "notadmin"
    /\ \E i \in Started : execs[i].req.admin /\ execs[i].pc = "post"

(* C11: there is no retry.  An execution posts at most once, and when the  *)
(* post fails (the call raises, status 502, or ok false) the handler sends *)
(* the one notice of that failure and returns: no other reply, nothing     *)
(* registered or annotated, no state event and no cache write-back.        *)
FailedResults == {"exception", "502", "notok"}

FailureNotice(result) ==
    CASE result = "exception" -> "failed"
      [] result = "502" -> "down"
      [] result = "notok" -> "error"

C11_NoRetryOneNotice ==
    \A i \in Started :
        LET x == execs[i]
        IN  /\ x.nposts <= 1
            /\ x.result \in FailedResults =>
                  /\ x.nposts = 1
                  /\ x.pubs = {} /\ x.applied = {}
                  /\ \A id \in MsgIds :
                        msgs[id].exec = i =>
                          /\ msgs[id].kind = FailureNotice(x.result)
                          /\ id \notin allow_redact
                          /\ id \notin reacted
                  /\ \/ /\ x.pc = "reply_notice"
                        /\ x.notice = FailureNotice(x.result)
                        /\ x.replies = << >>
                     \/ x.pc = "done" /\ x.replies = <<FailureNotice(x.result)>>
                     \/ x.pc = "crashed" /\ x.replies = << >>

C11_Witness ==
    \E i, j \in Started :
        /\ execs[i].result = "exception" /\ execs[i].replies = <<"failed">>
        /\ execs[j].result = "notok" /\ execs[j].replies = <<"error">>
        /\ execs[i].pc = "done" /\ execs[j].pc = "done"

(* C12: a response with a status outside 2xx other than 502, or with a    *)
(* body that cannot be parsed, is handled as a transport error: the        *)
(* handler sends the generic failure notice, and nothing else, and         *)
(* returns.                                                                *)
C12_OtherFailuresAreTransportErrors ==
    \A i \in Started :
        LET x == execs[i]
        IN  x.result \in {"500", "badjson"} =>
              /\ x.outcome # "unparsed"
              /\ x.pc \in {"reply_notice", "done", "crashed"}
              /\ x.pc = "reply_notice" => x.notice = "failed"
              /\ x.pc = "done" => x.replies = <<"failed">>
              /\ x.pc = "crashed" => x.replies = << >>

(* C13: no failure of a collaborator call ends a handler invocation in an  *)
(* unhandled error.                                                        *)
C13_NoHandlerCrashes == \A i \in Started : execs[i].pc # "crashed"

----------------------------------------------------------------------------
(* The trust gate at its caps, under SpecGate                              *)

\* the fields whose proposed value differs from the old one
ChangedFields(x) == {f \in Fields : x.new[f] # x.old[f]}

\* the gate has been evaluated and the handler has not returned
GateEvaluated(x) == x.gate # "" /\ x.pc \notin {"done", "crashed"}

AfterPublishPcs == {"upload", "reply_media", "got_media", "react_media"}

(* C14: the caps are strict.  For a trusted sender with only the name      *)
(* changed, a name of 101 characters is rejected and one of 100 characters *)
(* passes the gate and is applied; likewise a topic of 1001 and of 1000    *)
(* characters, and an mxc url of 101 and of 100 characters.                *)
C14_CapsAreStrict ==
    \A i \in Started :
        LET x == execs[i]
            only(f) == ChangedFields(x) = {f}
            applied(f) == /\ x.gate = "passed"
                          /\ x.pc \in AfterPublishPcs => x.applied = {f}
            rejected == x.gate = "rejected" /\ x.pubs = {} /\ x.applied = {}
        IN  GateEvaluated(x) /\ x.sender \notin ConfigUntrusted =>
              /\ only("name") /\ PyLen(x.new.name) = 101 => rejected
              /\ only("name") /\ PyLen(x.new.name) = 100 => applied("name")
              /\ only("topic") /\ PyLen(x.new.topic) = 1001 => rejected
              /\ only("topic") /\ PyLen(x.new.topic) = 1000 => applied("topic")
              /\ only("avatar") /\ StartsWithMxc(x.new.avatar)
                    /\ PyLen(x.new.avatar) = 101 => rejected
              /\ only("avatar") /\ StartsWithMxc(x.new.avatar)
                    /\ PyLen(x.new.avatar) = 100 => applied("avatar")

C14_Witness ==
    \E i \in Started :
        /\ ChangedFields(execs[i]) = {"name"}
        /\ PyLen(execs[i].new.name) = 100
        /\ execs[i].pc = "upload"
        /\ execs[i].applied = {"name"}

(* C15: rejection is all or nothing.  When one changed field breaks its    *)
(* rule (name over 100, topic over 1000, avatar not empty and not an mxc   *)
(* url or over 100), the gate rejects and no field is applied: no state    *)
(* event is published and no cache entry changes, also for a field whose   *)
(* own change is valid.                                                    *)
BreaksRule(f, v) ==
    CASE f = "name" -> PyLen(v) > 100
      [] f = "topic" -> PyLen(v) > 1000
      [] f = "avatar" -> Truthy(v) /\ (~StartsWithMxc(v) \/ PyLen(v) > 100)

\* the state events the homeserver has accepted are those the handlers sent
OnlyPublishedVersions ==
    \A r \in Rooms, f \in Fields :
        srv[r][f].ver = 1 + Cardinality({i \in Started : execs[i].room = r
                                                         /\ f \in execs[i].pubs})

\* a cache entry that holds a value changes only when a notification is
\* dispatched for it or when a handler writes back the field it published
CacheWritesAccounted ==
    \A f \in Fields, r \in Rooms :
        /\ r \in DOMAIN CacheOf(f)
        /\ r \notin DOMAIN CacheOf(f)' \/ CacheOf(f)'[r] # CacheOf(f)[r]
        => \/ /\ sync # << >>
              /\ sync' = Tail(sync)
              /\ sync[1].field = f /\ sync[1].room = r
           \/ \E i \in DOMAIN execs :
                 /\ execs[i].room = r
                 /\ f \in execs[i].pubs
                 /\ f \notin execs[i].applied
                 /\ f \in execs'[i].applied
                 /\ CacheOf(f)'[r] = execs[i].new[f]

C15_Rejected ==
    \A i \in Started :
        LET x == execs[i]
        IN  /\ x.gate = "rejected" => x.pubs = {} /\ x.applied = {}
            /\ /\ GateEvaluated(x)
               /\ \E f \in ChangedFields(x) : BreaksRule(f, x.new[f])
               => /\ x.gate = "rejected"
                  /\ x.pc = "reply_notice" /\ x.notice = "refusal"

C15_RejectionIsAllOrNothing ==
    /\ [](OnlyPublishedVersions /\ C15_Rejected)
    /\ [][CacheWritesAccounted]_vars

C15_Witness ==
    \E i \in Started :
        LET x == execs[i]
        IN  /\ x.gate = "rejected" /\ x.pc = "reply_notice"
            /\ ChangedFields(x) = {"name", "topic"}
            /\ ~BreaksRule("name", x.new.name)
            /\ BreaksRule("topic", x.new.topic)

(* C16: when the gate passes, exactly the changed fields are published and *)
(* written to the cache: a handler that returns has published and written  *)
(* each changed field, and a field whose proposed value equals the old one *)
(* gets no state event and keeps its cache entry.                          *)
C16_Returns(x, y) ==
    /\ x.gate \in {"passed", "unchanged"}
    /\ x.pc \notin {"done", "crashed"}
    /\ y.pc = "done"
    => y.pubs = ChangedFields(x) /\ y.applied = ChangedFields(x)

C16_WhilePublishing ==
    \A i \in Started :
        LET x == execs[i]
        IN  GateEvaluated(x) /\ x.gate \in {"passed", "unchanged"} =>
              /\ x.applied \subseteq x.pubs
              /\ x.pubs \subseteq ChangedFields(x)
              /\ x.gate = "passed" <=> ChangedFields(x) # {}
              /\ x.pc \in AfterPublishPcs => x.applied = ChangedFields(x)

C16_ExactlyChangedFieldsApplied ==
    /\ [](OnlyPublishedVersions /\ C16_WhilePublishing)
    /\ [][/\ CacheWritesAccounted
          /\ \A i \in DOMAIN execs : C16_Returns(execs[i], execs'[i])]_vars

C16_Witness ==
    \E i \in Started :
        /\ execs[i].pc = "upload"
        /\ ChangedFields(execs[i]) = {"name", "avatar"}
        /\ execs[i].applied = {"name", "avatar"}
        /\ topic_cache[execs[i].room] = execs[i].old.topic
        /\ srv[execs[i].room].topic.ver = 1

----------------------------------------------------------------------------
(* The truncation of stdout and stderr, under SpecRender                   *)

Streams == {"stdout", "stderr"}

\* the handler holds the response of a finished run
Rendering == {i \in Started : execs[i].pc \notin {"done", "crashed"}
                                /\ execs[i].result \in RunResults}

(* C17: a stream whose trimmed text has more than 256 lines is shown as    *)
(* its first 256 lines followed by one ellipsis line, and a stream of at   *)
(* most 256 lines is not cut by line (both as far as the byte limit leaves *)
(* the text alone).                                                        *)
C17_LineLimit ==
    \A i \in Rendering, s \in Streams :
        LET t == StrStrip(execs[i].data[s])
            lines == StrCount(t, "nl") + 1
            cut == StrFirstLines(t, LINE_LIMIT) \o <<Run(<<"nl">>, 1)>> \o ELLIPSIS
        IN  execs[i].data[s] # << >> =>
              /\ lines > LINE_LIMIT /\ StrLen(cut) <= BYTE_LIMIT =>
                    execs[i].shown[s] = cut
              /\ lines <= LINE_LIMIT /\ StrLen(t) <= BYTE_LIMIT =>
                    execs[i].shown[s] = t

(* C18: the text of a stream handed to rendering is never longer than 8192 *)
(* bytes; a text over the limit is cut so that the result is exactly 8192  *)
(* bytes long and ends with the ellipsis.                                  *)
C18_ByteLimit ==
    \A i \in Rendering, s \in Streams :
        LET t == LineCut(StrStrip(execs[i].data[s]))
            shown == execs[i].shown[s]
        IN  /\ StrBytes(shown) <= BYTE_LIMIT
            /\ StrBytes(t) > BYTE_LIMIT =>
                  /\ StrBytes(shown) = BYTE_LIMIT
                  /\ StrDrop(shown, StrLen(shown) - StrLen(ELLIPSIS)) = ELLIPSIS

(* C19: the truncation policy is idempotent: applied to the text it has    *)
(* produced it gives that text again.                                      *)
C19_TruncateIdempotent ==
    \A i \in Rendering, s \in Streams :
        Truncate(execs[i].shown[s]) = execs[i].shown[s]

C19_Witness ==
    \E i \in Rendering :
        LET x == execs[i]
        IN  /\ x.pc = "reply_output"
            /\ StrCount(StrStrip(x.data.stdout), "nl") > LINE_LIMIT
            /\ StrLen(LineCut(StrStrip(x.data.stdout))) > BYTE_LIMIT
            /\ StrLen(x.data.stderr) > BYTE_LIMIT
            /\ x.shown.stdout # x.data.stdout
            /\ x.shown.stderr # x.data.stderr

(* C20: no device of a request has an empty value: a device key is in the  *)
(* request only when its value is not empty.                               *)
C20_NoEmptyDevice ==
    \A i \in Started :
        execs[i].pc = "post" =>
            \A k \in DOMAIN execs[i].req.devices :
                /\ Truthy(execs[i].req.devices[k].of)
                /\ execs[i].req.devices[k].len > 0

----------------------------------------------------------------------------
(* The file of the replied-to message, under SpecRender                    *)

\* both size checks of _get_reply_file passed
BothChecksPassed(a) ==
    /\ a.head.called /\ a.head.ok /\ a.head.size <= max_size
    /\ a.got.called /\ a.got.ok /\ a.got.size <= max_size

AttachmentPcs == {"head", "download"}

\* a step of _get_reply_file leaves the handler in _get_reply_file, in
\* http.post or, for a sender whose localpart is refused, in the notice
AttachmentStep(x, y) ==
    x.pc \in AttachmentPcs =>
        /\ y.pc \in AttachmentPcs \cup {"post", "reply_notice"}
        /\ y.pc = "reply_notice" =>
              y.notice = "baduser" /\ ~LocalpartAllowed(Localpart(x.sender))
        /\ y.replies = x.replies

C21_RequestWithoutFile ==
    \A i \in Started :
        LET x == execs[i]
        IN  x.pc = "post" /\ x.reply_to = "media" =>
              /\ {"reply", "reply-mxc"} \subseteq DOMAIN x.req.devices
              /\ "reply-file" \in DOMAIN x.req.devices =>
                    BothChecksPassed(x.attach)
              /\ ~BothChecksPassed(x.attach) =>
                    /\ "reply-file" \notin DOMAIN x.req.devices
                    /\ x.replies = << >>

(* C21: a problem with the file of the replied-to message is never fatal:  *)
(* when a size check of _get_reply_file fails or one of its calls raises,  *)
(* the handler goes on to the request, which has no reply-file device, and *)
(* no reply has been sent; reply-file is in the request only when both     *)
(* size checks passed.                                                     *)
C21_AttachmentNeverFatal ==
    /\ []C21_RequestWithoutFile
    /\ [][\A i \in DOMAIN execs : AttachmentStep(execs[i], execs'[i])]_vars

C21_Witness ==
    \E i \in Started :
        LET x == execs[i]
        IN  /\ x.pc = "post" /\ x.reply_to = "media"
            /\ x.attach.head.ok /\ x.attach.head.size = max_size
            /\ x.attach.got.ok /\ x.attach.got.size = max_size + 1
            /\ "reply-file" \notin DOMAIN x.req.devices

----------------------------------------------------------------------------
(* Raw-mode commands, under SpecParse                                      *)

BlankLine == <<"nl", "nl">>

\* the words joined by single spaces
RECURSIVE JoinSpaces(_)
JoinSpaces(words) ==
    IF Len(words) = 0 THEN << >>
    ELSE IF Len(words) = 1 THEN words[1]
    ELSE words[1] \o <<"sp">> \o JoinSpaces(Tail(words))

\* the text before the first blank line, the text after it, and the text
\* after the first space of the first block
FirstBlock(body) ==
    IF Find(body, BlankLine) = 0 THEN body
    ELSE SubSeq(body, 1, Find(body, BlankLine) - 1)
SecondBlock(body) ==
    IF Find(body, BlankLine) = 0 THEN << >>
    ELSE SubSeq(body, Find(body, BlankLine) + 2, Len(body))
AfterFirstSpace(body) ==
    LET fb == FirstBlock(body)
    IN  IF Find(fb, <<"sp">>) = 0 THEN << >>
        ELSE SubSeq(fb, Find(fb, <<"sp">>) + 1, Len(fb))

Quotes(t) == Cardinality({k \in 1..Len(t) : t[k] = "q"})

\* a handler of arbitrary_cmd suspended in http.post
RawPosting == {i \in Started : execs[i].pc = "post" /\ execs[i].entry = "raw"}

\* the request is in raw mode, its language is its first argument, and
\* stdin is the text after the first blank line
RawBasics(x) ==
    /\ x.req.raw
    /\ Len(x.req.args) >= 1
    /\ x.req.language = x.req.args[1]
    /\ x.req.script = SecondBlock(x.body)

\* the arguments are the pieces of the first block, after the prefix,
\* between its single spaces
SpaceSeparated(x) ==
    /\ \A k \in 1..Len(x.req.args) :
           \A j \in 1..Len(x.req.args[k]) : x.req.args[k][j] # "sp"
    /\ SubSeq(x.body, 1, 2) \o JoinSpaces(x.req.args) = FirstBlock(x.body)

(* C22, as specified: for a body with prefix !! or !? the request is in    *)
(* raw mode, its language is the first token after the prefix, its args    *)
(* are that token followed by the other space-separated tokens of the      *)
(* first block, and its stdin is the text after the first blank line.      *)
C22_SpaceSeparatedArgs ==
    /\ \A i \in RawPosting : RawBasics(execs[i]) /\ SpaceSeparated(execs[i])
    /\ \A i \in Started : execs[i].outcome # "badquote"

(* C22, as the code has it: as above for the prefix !!; for the prefix !?  *)
(* the arguments after the first are the shell words of the text after     *)
(* the first space of the first block (whitespace runs separate, a quoted  *)
(* stretch is taken literally), and when that text has an unclosed quote   *)
(* the handler raises before any request or reply.                         *)
C22_ArgsByPrefix ==
    /\ \A i \in RawPosting :
         LET x == execs[i]
         IN  /\ RawBasics(x)
             /\ StartsWith(x.body, <<"!", "!">>) => SpaceSeparated(x)
             /\ StartsWith(x.body, <<"!", "?">>) =>
                   /\ Quotes(AfterFirstSpace(x.body)) % 2 = 0
                   /\ <<"!", "?">> \o x.req.args[1] =
                          SplitOnce(FirstBlock(x.body), <<"sp">>)[1]
                   /\ Tail(x.req.args) = ShlexSplit(AfterFirstSpace(x.body)).words
                   /\ \A k \in 2..Len(x.req.args) : Quotes(x.req.args[k]) = 0
    /\ \A i \in Started :
         LET x == execs[i]
         IN  x.outcome = "badquote" =>
               /\ StartsWith(x.body, <<"!", "?">>)
               /\ Quotes(AfterFirstSpace(x.body)) % 2 = 1
               /\ x.nposts = 0 /\ x.replies = << >>

C22_Witness ==
    \E i \in RawPosting :
        LET x == execs[i]
        IN  /\ StartsWith(x.body, <<"!", "?">>)
            /\ x.req.script # << >>
            /\ \E k \in 2..Len(x.req.args) :
                   \E j \in 1..Len(x.req.args[k]) : x.req.args[k][j] = "sp"
            /\ Tail(x.req.args) # SplitAll(AfterFirstSpace(x.body), <<"sp">>)

----------------------------------------------------------------------------
(* The markup of a literal run and the style state, under SpecStyle        *)

\* the place of an element in the nesting, outward to inward
Depth(el) ==
    CASE el = "span" -> 1
      [] el = "font" -> 2
      [] el = "strong" -> 3
      [] el = "em" -> 4
      [] el = "del" -> 5
      [] el = "u" -> 6

\* the loop has just handled a literal run
AfterRun == conv.pc = "loop" /\ conv.last.type = "str"

(* C23: the closing tags after a literal run close exactly the tags opened *)
(* before it, in reversed order, and the tags are opened outward to inward *)
(* in the order spoiler, color, bold, italic, strikethrough, underline.    *)
C23_TagsMirrored ==
    AfterRun =>
        LET run == conv.run
            n == (Len(run) - 1) \div 2
        IN  /\ Len(run) = 2 * n + 1
            /\ run[n + 1].kind = "text"
            /\ \A k \in 1..n :
                 /\ run[k].kind = "open"
                 /\ run[Len(run) + 1 - k].kind = "close"
                 /\ run[Len(run) + 1 - k].el = run[k].el
            /\ \A j, k \in 1..n : j < k => Depth(run[j].el) < Depth(run[k].el)

C23_Witness ==
    /\ AfterRun
    /\ Len(conv.run) = 13
    /\ conv.tags.reverse

(* C25: a NORMAL instruction clears foreground, background, bold, dim,     *)
(* italic, underline, blink and hidden and leaves strikethrough and        *)
(* reverse as they were.                                                   *)
C25_NormalKeepsStrikeAndReverse ==
    conv.pc = "loop" /\ conv.last = SetAttribute("NORMAL") =>
        /\ conv.tags.fg = NoColor /\ conv.tags.bg = NoColor
        /\ ~conv.tags.bold /\ ~conv.tags.dim /\ ~conv.tags.italic
        /\ ~conv.tags.underline /\ ~conv.tags.blink /\ ~conv.tags.hidden
        /\ conv.tags.strikethrough = conv.was.strikethrough
        /\ conv.tags.reverse = conv.was.reverse

C25_Witness ==
    /\ conv.pc = "loop" /\ conv.last = SetAttribute("NORMAL")
    /\ conv.was.fg # NoColor /\ conv.was.bg # NoColor
    /\ \A f \in Flags \ {"bold"} : conv.was[f]
    /\ conv.tags.strikethrough /\ conv.tags.reverse

\* the fields a NORMAL instruction has changed
ChangedByNormal == {f \in DOMAIN ANSIHTML : conv.tags[f] # conv.was[f]}

(* C26, as specified: the attribute reset clears only bold, dim,           *)
(* underline, blink, hidden and the two colors; italic and strikethrough   *)
(* keep the value they had.                                                *)
C26_ResetKeepsItalic ==
    conv.pc = "loop" /\ conv.last = SetAttribute("NORMAL") =>
        /\ ChangedByNormal \subseteq
              {"bold", "dim", "underline", "blink", "hidden", "fg", "bg"}
        /\ conv.tags.italic = conv.was.italic
        /\ conv.tags.strikethrough = conv.was.strikethrough

(* C26, as the code has it: the attribute reset changes no field other     *)
(* than bold, dim, italic, underline, blink, hidden and the two colors,    *)
(* and italic is off after it; strikethrough keeps the value it had.       *)
C26_ResetClearsItalic ==
    conv.pc = "loop" /\ conv.last = SetAttribute("NORMAL") =>
        /\ ChangedByNormal \subseteq
              {"bold", "dim", "italic", "underline", "blink", "hidden", "fg", "bg"}
        /\ \A f \in ChangedByNormal : conv.tags[f] = ANSIHTML[f]
        /\ conv.was.italic => "italic" \in ChangedByNormal
        /\ "strikethrough" \notin ChangedByNormal

C26_Witness ==
    /\ conv.pc = "loop" /\ conv.last = SetAttribute("NORMAL")
    /\ conv.was.italic /\ ~conv.tags.italic
    /\ conv.was.strikethrough /\ conv.tags.strikethrough

(* C27: the style state never has bold and dim both set: setting one       *)
(* clears the other.                                                       *)
C27_BoldDimExclusive ==
    /\ ~(conv.tags.bold /\ conv.tags.dim)
    /\ conv.pc = "loop" /\ conv.last = SetAttribute("BOLD") =>
          conv.tags.bold /\ ~conv.tags.dim
    /\ conv.pc = "loop" /\ conv.last = SetAttribute("DIM") =>
          conv.tags.dim /\ ~conv.tags.bold

C27_Witness ==
    /\ conv.pc = "loop" /\ conv.last = SetAttribute("BOLD")
    /\ conv.was.dim /\ conv.tags.bold /\ ~conv.tags.dim

\* the font tags among the tags opened for the last run
FontTags == {k \in 1..Len(conv.run) :
                conv.run[k].kind = "open" /\ conv.run[k].el = "font"}

(* C28: reverse video swaps the colors when a run is rendered only: the    *)
(* stored fg and bg are left alone, and with reverse set the run is given  *)
(* the stored background (white if unset) as its color and the stored      *)
(* foreground (black if unset) as its background, also when neither is     *)
(* set.                                                                    *)
C28_ReverseSwapsAtRender ==
    AfterRun =>
        /\ conv.tags = conv.was
        /\ conv.tags.reverse =>
             /\ FontTags # {}
             /\ \A k \in FontTags :
                  /\ conv.run[k].color =
                       IF conv.tags.bg # NoColor THEN conv.tags.bg ELSE White
                  /\ conv.run[k].bg =
                       IF conv.tags.fg # NoColor THEN conv.tags.fg ELSE Black

----------------------------------------------------------------------------
(* The fallback of ansi_to_html, under SpecAnsi                            *)

\* the decoding of the text raised
Raised == conv.pc = "returned" /\ conv.last = Malformed

(* C24: ansi_to_html always returns: when the decoding of the text fails,  *)
(* its result is the HTML-escaping of the original text, with none of the  *)
(* markup produced before the failure.                                     *)
C24_FallbackIsEscapedInput ==
    /\ Raised =>
         /\ conv.result = HtmlEscape(conv.text)
         /\ Len(conv.result) = Len(conv.text)
         /\ \A k \in 1..Len(conv.result) :
              /\ conv.result[k].kind \in {"text", "raw"}
              /\ conv.text[k].type = "str" =>
                   /\ conv.result[k].kind = "text"
                   /\ conv.result[k].el = EscapeChar(conv.text[k].a)
              /\ conv.text[k].type # "str" =>
                   /\ conv.result[k].kind = "raw"
                   /\ conv.result[k].el = conv.text[k].type
                   /\ conv.result[k].attr = conv.text[k].a
    /\ conv.pc = "returned" /\ ~Raised => conv.result = conv.output

C24_Witness ==
    /\ Raised
    /\ \E k \in 1..Len(conv.output) : conv.output[k].kind = "open"
    /\ \E k \in 1..Len(conv.text) : conv.text[k] = Str("<")

----------------------------------------------------------------------------
(* sudo, under SpecSudo                                                    *)

\* invocations of sudo by a for a target u other than a, past the test of
\* the administrators list
SudoFor == {i \in Started : execs[i].admin /\ execs[i].sender # execs[i].orig}

\* the awaits of _exec before http.post
BeforePostPcs ==
    {"fetch_name", "got_name", "fetch_topic", "got_topic", "fetch_avatar",
     "got_avatar", "get_event", "head", "download"}

(* C29: in a sudo command of an administrator a for a target u the acting  *)
(* identity is u after the administrators test: the not-the-bot test of    *)
(* the admission check, the localpart check, the user, home and untrusted  *)
(* fields of the request and the untrusted test of the trust gate are      *)
(* evaluated on u; only the administrators test is evaluated on a.         *)
C29_SudoActsAsTarget ==
    \A i \in SudoFor :
        LET x == execs[i]
            a == x.orig
            u == x.sender
        IN  /\ a \in ConfigAdmins
            /\ u = BotMxid =>
                 x.pc = "done" /\ x.outcome = "ignored" /\ x.nposts = 0
                 /\ x.replies = << >>
            /\ u # BotMxid /\ ~LocalpartAllowed(Localpart(u)) =>
                 /\ x.nposts = 0
                 /\ \/ x.pc \in BeforePostPcs \cup {"crashed"}
                    \/ x.pc = "reply_notice" /\ x.notice = "baduser"
                    \/ x.pc = "done" /\ x.replies = <<"baduser">>
            /\ u # BotMxid /\ LocalpartAllowed(Localpart(u)) =>
                 x.notice # "baduser" /\ x.outcome \notin {"baduser", "ignored"}
            /\ x.pc = "post" =>
                 /\ x.req.user = u
                 /\ x.req.home = <<"/">> \o Server(u) \o <<"/">> \o Localpart(u)
                 /\ x.req.untrusted = (u \in ConfigUntrusted)
                 /\ x.req.admin
            /\ u \in ConfigUntrusted => x.gate \in {"", "rejected", "unchanged"}
            /\ u \notin ConfigUntrusted /\ x.gate = "rejected" /\ x.pc # "done" =>
                 ~WithinCaps(x.new)

C29_Witness ==
    \E i \in SudoFor :
        /\ execs[i].orig \in ConfigUntrusted
        /\ execs[i].sender \notin ConfigUntrusted
        /\ execs[i].gate = "passed"
        /\ execs[i].pubs # {}

----------------------------------------------------------------------------
(* The order of the steps of a successful execution, under SpecGate        *)

\* the elements of a sequence
Range(seq) == {seq[k] : k \in 1..Len(seq)}

\* the output reply of invocation i is registered and carries the reaction
OutputAnnotated(i) ==
    \E id \in DOMAIN msgs :
        /\ msgs[id].exec = i /\ msgs[id].kind = "output"
        /\ id \in allow_redact /\ id \in reacted

PublishPcs == {"pub_name", "pubd_name", "pub_topic", "pubd_topic", "pub_avatar",
               "pubd_avatar"}
OutFilePcs == {"upload", "reply_media", "got_media", "react_media"}

(* C30: within one execution the output reply is sent and its id stored in *)
(* the registry before the delete reaction is attached, all of that before *)
(* any state event is published, and the upload and the media reply come   *)
(* after the metadata mutations.                                           *)
C30_StepsInOrder ==
    \A i \in Started :
        LET x == execs[i]
        IN  /\ x.pc \in {"reply_output", "got_output", "react_output"} =>
                 x.pubs = {} /\ x.applied = {} /\ "media" \notin Range(x.replies)
            /\ x.pc = "react_output" =>
                 /\ msgs[x.evt_id].kind = "output" /\ msgs[x.evt_id].exec = i
                 /\ x.evt_id \in allow_redact
                 /\ x.evt_id \notin reacted
            /\ x.pc \in PublishPcs \/ x.pubs # {} =>
                 /\ Len(x.replies) >= 1 /\ x.replies[1] = "output"
                 /\ OutputAnnotated(i)
            /\ x.pc \in PublishPcs => "media" \notin Range(x.replies)
            /\ x.pc \in OutFilePcs =>
                 /\ x.replies[1] = "output"
                 /\ OutputAnnotated(i)
                 /\ x.pubs = ChangedFields(x)
                 /\ x.applied = x.pubs

C30_Witness ==
    \E i \in Started :
        /\ execs[i].pc = "react_media"
        /\ execs[i].replies = <<"output", "media">>
        /\ execs[i].pubs = Fields
        /\ execs[i].applied = Fields

----------------------------------------------------------------------------
(* The tags of a literal run, attribute by attribute, under SpecStyle      *)

\* the active style attributes of a state; the two colors share one font tag
ActiveStyles(t) ==
    {f \in Flags : t[f]}
    \cup (IF t.fg # NoColor \/ t.bg # NoColor THEN {"color"} ELSE {})

\* the positions of the tags of one kind in the markup of the last run
TagsOfKind(kind) == {k \in 1..Len(conv.run) : conv.run[k].kind = kind}

(* C31: a literal run rendered in a non-default style state is given an    *)
(* opening tag and a matching closing tag for every active style           *)
(* attribute, dim, blink and reverse included (so at least one of each,    *)
(* and as many as there are active attributes); a run rendered in the      *)
(* default state is its escaped text alone.                                *)
C31_TagPerActiveAttribute ==
    AfterRun =>
        IF is_default(conv.tags)
        THEN /\ Len(conv.run) = 1
             /\ conv.run[1].kind = "text"
             /\ conv.run[1].el = EscapeChar(conv.last.a)
        ELSE /\ TagsOfKind("open") # {}
             /\ Cardinality(TagsOfKind("open")) =
                  Cardinality(ActiveStyles(conv.tags))
             /\ Cardinality(TagsOfKind("close")) =
                  Cardinality(TagsOfKind("open"))

\* the tags open_tags does emit: one for every active attribute other than
\* dim, blink and reverse
C31_ExceptTaglessStyles ==
    AfterRun =>
        IF is_default(conv.tags)
        THEN /\ Len(conv.run) = 1
             /\ conv.run[1].kind = "text"
             /\ conv.run[1].el = EscapeChar(conv.last.a)
        ELSE /\ Cardinality(TagsOfKind("open")) =
                  Cardinality(ActiveStyles(conv.tags) \ {"dim", "blink", "reverse"})
             /\ Cardinality(TagsOfKind("close")) =
                  Cardinality(TagsOfKind("open"))

----------------------------------------------------------------------------
(* The reaction handler against the registration, under SpecReactions      *)

\* MaushBot.reaction, handled now for a delete reaction of a user other than
\* the bot on the message id, calls client.redact
DeleteReactionRetracts(id) ==
    \A sender \in Users \ {BotMxid} : ReactionAllowed(id, "delete", sender)

\* the output messages the homeserver has accepted, which users see and may
\* react to, and which no reaction has retracted yet
Reactable ==
    {id \in MsgIds : /\ msgs[id].kind \in OutputKinds
                     /\ id \notin RedactedIds
                     /\ execs[msgs[id].exec].pc # "crashed"}

(* C32: a delete reaction of a user other than the bot on an output        *)
(* message of the bot is never lost to a registration race: whenever the   *)
(* reaction handler may run for such a message, that is from the moment    *)
(* the homeserver has accepted it, its id is in allow_redact, so the       *)
(* reaction leads to a retraction.                                         *)
C32_NoRegistrationRace ==
    \A id \in Reactable : DeleteReactionRetracts(id)

\* the same outside the window between the homeserver accepting the message
\* and evt.reply returning its id to _exec
C32_OutsideTheWindow ==
    \A id \in Reactable :
        ~(execs[msgs[id].exec].pc \in {"got_output", "got_media"}
          /\ execs[msgs[id].exec].evt_id = id)
        => DeleteReactionRetracts(id)

----------------------------------------------------------------------------
(* Keys missing from the devices map of the response, under SpecClear      *)

\* the fields whose key new_dev lacks although the room has a value for them
Cleared(x) == {f \in x.omitted : Truthy(x.old[f])}

\* while the handler runs: a missing key is an empty proposal that differs
\* from the old value, passes the gate with the other proposals, and is
\* published as the empty value
C33_WhileRunning ==
    \A i \in Started :
        LET x == execs[i]
        IN  x.sender \notin ConfigUntrusted =>
              \A f \in Cleared(x) :
                 /\ x.new[f] = Empty
                 /\ f \in ChangedFields(x)
                 /\ /\ GateEvaluated(x)
                    /\ \A g \in ChangedFields(x) : ~BreaksRule(g, x.new[g])
                    => x.gate = "passed"
                 /\ f \in x.pubs \ x.applied =>
                       x.fetched.val = Empty /\ srv[x.room][f].val = Empty
                 /\ x.pc \in AfterPublishPcs => f \in x.applied

\* the write-back of a cleared field stores the empty value
C33_WritesBack(x, y) ==
    \A f \in Cleared(x) :
        f \notin x.applied /\ f \in y.applied =>
            CacheOf(f)'[x.room] = Empty /\ srv[x.room][f].val = Empty

\* when the handler returns past the gate: every cleared field has been
\* published and cached, and a field that had a value was left alone only
\* if its key was present with the old value
C33_Returns(x, y) ==
    /\ x.sender \notin ConfigUntrusted
    /\ x.gate \in {"passed", "unchanged"}
    /\ x.pc \notin {"done", "crashed"}
    /\ y.pc = "done"
    => /\ Cleared(x) \subseteq y.pubs \cap y.applied
       /\ \A f \in Fields :
             Truthy(x.old[f]) /\ f \notin y.pubs =>
                f \notin x.omitted /\ x.new[f] = x.old[f]

(* C33: a device key missing from the response is a proposal to clear the  *)
(* field.  For a trusted sender and a field whose old value is not empty,  *)
(* a successful response whose devices map lacks the key gives an empty    *)
(* new value, which is published as a state event and written to the      *)
(* cache; such a field is left alone only when the key is present and      *)
(* carries the old value.                                                  *)
C33_MissingKeyClears ==
    /\ []C33_WhileRunning
    /\ [][\A i \in DOMAIN execs :
            /\ C33_WritesBack(execs[i], execs'[i])
            /\ C33_Returns(execs[i], execs'[i])]_vars

C33_Witness ==
    \E i \in Started :
        LET x == execs[i]
        IN  /\ x.pc = "upload"
            /\ x.omitted = {"name", "topic"}
            /\ x.old.topic = TopicA
            /\ x.applied = {"name", "topic"}
            /\ topic_cache[x.room] = Empty
            /\ srv[x.room].topic.val = Empty
            /\ avatar_cache[x.room] = AvatarA

----------------------------------------------------------------------------
(* The cache write-back against a failed publish, under SpecGate           *)

\* the place of a field in the order _exec publishes them in
Place(f) ==
    CASE f = "name" -> 1
      [] f = "topic" -> 2
      [] f = "avatar" -> 3

PublishingPcs == {"pub_name", "pubd_name", "pub_topic", "pubd_topic",
                  "pub_avatar", "pubd_avatar"}

\* a field is written back only once its state event has been accepted, and
\* the fields are published in order, each written back before the next
C34_PublishedFirst ==
    \A i \in Started :
        LET x == execs[i]
        IN  /\ x.applied \subseteq x.pubs
            /\ \A f \in x.pubs, g \in Fields :
                  Place(g) < Place(f) /\ g \in x.pubs => g \in x.applied
            /\ x.pc \in PublishingPcs =>
                  /\ FieldOfPc(x.pc) \notin x.applied
                  /\ \A g \in x.pubs : Place(g) <= Place(FieldOfPc(x.pc))
                  /\ \A g \in ChangedFields(x) :
                        Place(g) < Place(FieldOfPc(x.pc)) => g \in x.applied
                  /\ x.pc \in {"pubd_name", "pubd_topic", "pubd_avatar"} =>
                        /\ x.fetched.val = x.new[FieldOfPc(x.pc)]
                        /\ FieldOfPc(x.pc) \in x.pubs

\* send_state_event raises for a field: no cache entry changes, the field
\* and the fields after it are not written back, the fields before it stay
\* applied
C34_PublishFails(x, y) ==
    x.pc \in PublishingPcs /\ y.pc = "crashed" =>
        /\ name_cache' = name_cache
        /\ topic_cache' = topic_cache
        /\ avatar_cache' = avatar_cache
        /\ y.applied = x.applied /\ y.pubs = x.pubs
        /\ \A g \in Fields :
              Place(g) >= Place(FieldOfPc(x.pc)) => g \notin y.applied
        /\ \A g \in ChangedFields(x) :
              Place(g) < Place(FieldOfPc(x.pc)) => g \in y.applied

(* C34: a value is written into a room's cache entry by _exec only after   *)
(* the state event carrying it has been published; when publishing a field *)
(* fails, the cache entry of that field and those of the fields not yet    *)
(* processed keep their values, and the fields published before it in the  *)
(* same execution stay applied.                                            *)
C34_CacheAfterPublish ==
    /\ []C34_PublishedFirst
    /\ [][/\ CacheWritesAccounted
          /\ \A i \in DOMAIN execs : C34_PublishFails(execs[i], execs'[i])]_vars

C34_Witness ==
    \E i \in Started :
        /\ execs[i].pc = "crashed"
        /\ execs[i].gate = "passed"
        /\ execs[i].pubs = {"name", "avatar"}
        /\ execs[i].applied = {"name"}
        /\ name_cache["!ok"] # NameA
        /\ avatar_cache["!ok"] = AvatarA
        /\ srv["!ok"].avatar.val # AvatarA

----------------------------------------------------------------------------
(* The output file against a rejection, under SpecGate                     *)

\* the response carried an out_file and the gate rejected the proposal
RejectedWithFile(x) == x.gate = "rejected" /\ x.out_file # NoFile

\* a rejected execution is at the refusal reply or has returned, and has
\* sent no media reply; every media reply belongs to an execution whose
\* gate passed or found nothing changed
C35_NoFileWhenRejected ==
    /\ \A i \in Started :
          LET x == execs[i]
          IN  x.gate = "rejected" =>
                /\ x.pc \in {"reply_notice", "done", "crashed"}
                /\ "media" \notin Range(x.replies)
                /\ x.pc = "done" => x.replies = <<"output", "refusal">>
    /\ \A id \in MsgIds :
          msgs[id].kind = "media" =>
              execs[msgs[id].exec].gate \in {"passed", "unchanged"}

\* the step that follows the rejection is the refusal reply or a failure,
\* never the upload
C35_RejectionReturns(x, y) ==
    RejectedWithFile(x) /\ y # x =>
        /\ y.pc \in {"done", "crashed"}
        /\ y.replies \in {x.replies, Append(x.replies, "refusal")}

(* C35: a trust-gate rejection also suppresses the output file: when the   *)
(* response carries an out_file and the proposal is rejected, nothing is   *)
(* uploaded and no media reply is sent; an out_file is delivered only by   *)
(* an execution whose gate passed or found nothing changed.                *)
C35_RejectionSuppressesFile ==
    /\ []C35_NoFileWhenRejected
    /\ [][\A i \in DOMAIN execs : C35_RejectionReturns(execs[i], execs'[i])]_vars

C35_Witness ==
    /\ \E i \in Started :
          /\ RejectedWithFile(execs[i])
          /\ execs[i].pc = "reply_notice"
          /\ execs[i].sender \notin ConfigUntrusted
    /\ \A id \in MsgIds : msgs[id].kind # "media"

====
